---- MODULE Spec2Model ----
(***************************************************************************)
(* languageForge: the profile registry (core/logic_profiles.py), the       *)
(* profile-scoped JSON store (core/storage.py) and the monthly goals       *)
(* module (core/logic_goals.py), as a state machine.                       *)
(*                                                                         *)
(* Strings that the code inspects character by character (profile names,   *)
(* slugs, month keys, goal texts) are sequences of one-character strings.  *)
(* JSON values are records with a tag t and one payload field per type.    *)
(* File writes and directory removals succeed in Spec and SpecGoals.       *)
(***************************************************************************)
EXTENDS Integers, Sequences, FiniteSets, TLC

VARIABLES
    regFile,   \* profiles.json: NoFile or JsonFile(registry document)
    files,     \* the profiles root: directory name -> (file name -> content)
    cache,     \* the module global _current_profile_id
    clock,     \* what datetime.now() returns
    saved,     \* history: profile id -> the activity document last saved for it
    input,     \* the argument of a function that reads no state, None before one is drawn
    output,    \* what the function returned for it, None before the call
    main_window \* the dashboard and the goals view of the window, NoWindow without one

vars == <<regFile, files, cache, clock, saved, input, output, main_window>>

-----------------------------------------------------------------------------
(* Bounds of the model *)

\* the clock ticks at most this many times
MaxClock == 1

\* MAX_PROFILES is 50 in the code (logic_profiles.py:12); the model scales the
\* limit down so that the "limit reached" branch of create_profile is reached.
MAX_PROFILES == 3

\* a stored goals entry of the initial state departs from the shape the
\* program writes in at most this many of its array fields
MaxDamaged == 1

\* the names given to sanitize_profile_name are all strings of at most this
\* many characters over SanitizeAlphabet, alone and after a long prefix
MaxNameLen == 3

\* program constants
MAX_PROFILE_NAME_LENGTH == 30
MIN_PROFILE_NAME_LENGTH == 1

-----------------------------------------------------------------------------
(* Strings as sequences of characters *)

\* Python's None for an Optional[str]: no string of characters equals it
None == <<"None">>

\* an exception leaving the call
Raised(what) == [raised |-> what]
IsRaised(x) == "raised" \in DOMAIN x

\* no window: the core functions are called on their own
NoWindow == [tab |-> "none"]

INVALID_CHARS == {"/", "\\", ":", "*", "?", "\"", "<", ">", "|"}

DEFAULT == <<"d", "e", "f", "a", "u", "l", "t">>

RESERVED_NAMES ==
    { <<"s", "e", "t", "t", "i", "n", "g", "s">>,
      <<"p", "r", "o", "f", "i", "l", "e", "s">>,
      <<"t", "e", "m", "p">>,
      <<"b", "a", "c", "k", "u", "p">>,
      DEFAULT }

\* Characters outside ASCII are written by their code point: "U+0130" is the
\* one character LATIN CAPITAL LETTER I WITH DOT ABOVE, "U+0307" the one
\* character COMBINING DOT ABOVE.

\* str.lower() on one character: the lower-case form is a string, and that of
\* U+0130 has two characters
LowerChar(c) ==
    CASE c = "A" -> <<"a">>
      [] c = "B" -> <<"b">>
      [] c = "C" -> <<"c">>
      [] c = "D" -> <<"d">>
      [] c = "T" -> <<"t">>
      [] c = "X" -> <<"x">>
      [] c = "U+0130" -> <<"i", "U+0307">>
      [] OTHER -> <<c>>

\* str.lower(): the lower-case forms of the characters, joined
RECURSIVE Lower(_)
Lower(s) == IF s = <<>> THEN <<>> ELSE LowerChar(s[1]) \o Lower(Tail(s))

\* characters str.strip() removes
IsSpace(c) == c \in {" ", "\t", "\n"}

RECURSIVE LStrip(_, _)
LStrip(s, drop) ==
    IF s # <<>> /\ s[1] \in drop THEN LStrip(Tail(s), drop) ELSE s

RECURSIVE RStrip(_, _)
RStrip(s, drop) ==
    IF s # <<>> /\ s[Len(s)] \in drop
    THEN RStrip(SubSeq(s, 1, Len(s) - 1), drop)
    ELSE s

\* str.strip(): whitespace off both ends
Strip(s) == RStrip(LStrip(s, {" ", "\t", "\n"}), {" ", "\t", "\n"})

\* str.strip('_')
StripUnderscore(s) == RStrip(LStrip(s, {"_"}), {"_"})

\* name.replace(char, '') for every char of a set
RemoveChars(s, cs) == SelectSeq(s, LAMBDA c : c \notin cs)

\* str.replace(old, new) for a two-character old: left to right, non-overlapping
RECURSIVE Replace2(_, _, _)
Replace2(s, old, new) ==
    IF Len(s) < 2 THEN s
    ELSE IF s[1] = old[1] /\ s[2] = old[2]
         THEN new \o Replace2(SubSeq(s, 3, Len(s)), old, new)
         ELSE <<s[1]>> \o Replace2(Tail(s), old, new)

\* str.replace(' ', '_')
ReplaceChar(s, old, new) == [i \in 1..Len(s) |-> IF s[i] = old THEN new ELSE s[i]]

Contains2(s, old) == \E i \in 1..(Len(s) - 1) : s[i] = old[1] /\ s[i + 1] = old[2]

\* while '__' in folder_name: folder_name = folder_name.replace('__', '_')
RECURSIVE CollapseUnderscores(_)
CollapseUnderscores(s) ==
    IF Contains2(s, <<"_", "_">>)
    THEN CollapseUnderscores(Replace2(s, <<"_", "_">>, <<"_">>))
    ELSE s

\* name[:n]
Prefix(s, n) == SubSeq(s, 1, IF Len(s) < n THEN Len(s) ELSE n)

sanitize_profile_name(name) ==
    IF name = <<>> THEN <<>>
    ELSE LET stripped == Strip(name)
             cleaned == RemoveChars(stripped, INVALID_CHARS)
             nodots == Replace2(cleaned, <<".", ".">>, <<>>)
             cut == Prefix(nodots, MAX_PROFILE_NAME_LENGTH)
             folder == ReplaceChar(Lower(cut), " ", "_")
         IN StripUnderscore(CollapseUnderscores(folder))

-----------------------------------------------------------------------------
(* The registry document (profiles.json) *)

NoFile == [kind |-> "none"]
JsonFile(d) == [kind |-> "json", data |-> d]

\* profiles.json that holds no JSON, no object, or an object without one of
\* the required keys: read as the default data
CorruptFile == [kind |-> "corrupt"]

\* profiles.json holding {"active_profile": "default", "profiles": null}: it
\* has both required keys and is returned as it is
NullProfilesFile == [kind |-> "null_profiles"]

Profile(id, name, created, used) ==
    [id |-> id, display_name |-> name, created_at |-> created, last_used |-> used]

DisplayDefault == <<"D", "e", "f", "a", "u", "l", "t">>

_default_profiles_data(now) ==
    [active_profile |-> DEFAULT,
     profiles |-> <<Profile(DEFAULT, DisplayDefault, now, now)>>,
     version |-> "1.0"]

\* The program state an operation reads and writes
State == [reg |-> regFile, files |-> files, cache |-> cache, clock |-> clock]

\* the file system refuses to open profiles.json for reading ("r") or for
\* writing ("w"): path.open raises and the except clause swallows it
Denied(file, mode) == "denied" \in DOMAIN file /\ mode \in file.denied

\* the file with opening it in these modes refused
DeniedFile(file, modes) ==
    IF file.kind = "json"
    THEN [kind |-> "json", data |-> file.data, denied |-> modes]
    ELSE [kind |-> file.kind, denied |-> modes]

_load_profiles_registry(s) ==
    IF s.reg.kind = "json" /\ ~Denied(s.reg, "r")
    THEN s.reg.data ELSE _default_profiles_data(s.clock)

_save_profiles_registry(s, data) ==
    IF Denied(s.reg, "w") THEN s
    ELSE IF "denied" \in DOMAIN s.reg
    THEN [s EXCEPT !.reg = DeniedFile(JsonFile(data), s.reg.denied)]
    ELSE [s EXCEPT !.reg = JsonFile(data)]

list_profiles(s) == _load_profiles_registry(s).profiles

\* any(... for p in profiles) and {p["id"] for p in profiles} raise TypeError
\* when "profiles" of the document is None
IterRaises(s) == s.reg.kind = "null_profiles"

Ids(profiles) == {profiles[i].id : i \in 1..Len(profiles)}

profile_exists(s, profile_id) == profile_id \in Ids(list_profiles(s))

\* get_profile_data_dir: mkdir(parents=True, exist_ok=True)
get_profile_data_dir(s, profile_id) ==
    IF profile_id \in DOMAIN s.files THEN s
    ELSE [s EXCEPT !.files = [d \in DOMAIN s.files \cup {profile_id} |->
                                IF d = profile_id THEN <<>> ELSE s.files[d]]]


_ensure_default_profile(s) ==
    IF profile_exists(s, DEFAULT) THEN s
    ELSE LET registry == _load_profiles_registry(s)
             default_profile == Profile(DEFAULT, DisplayDefault, s.clock, s.clock)
             data == [registry EXCEPT
                        !.profiles = Append(@, default_profile),
                        !.active_profile = DEFAULT]
         IN get_profile_data_dir(_save_profiles_registry(s, data), DEFAULT)

\* Every operation below returns [st |-> the state it leaves, ret |-> its result]

get_active_profile_id(s) ==
    IF s.cache # None THEN [st |-> s, ret |-> s.cache]
    ELSE LET registry == _load_profiles_registry(s)
             profiles == registry.profiles
             stored == registry.active_profile
             fallback == stored \notin Ids(profiles)
             active_id == IF ~fallback THEN stored
                          ELSE IF profiles # <<>> THEN profiles[1].id
                          ELSE DEFAULT
             s1 == IF fallback /\ profiles = <<>>
                   THEN _ensure_default_profile(s) ELSE s
         IN [st |-> [s1 EXCEPT !.cache = active_id], ret |-> active_id]

\* the first profile with this id gets last_used = now ("break" after it)
TouchFirst(profiles, profile_id, now) ==
    LET hits == {i \in 1..Len(profiles) : profiles[i].id = profile_id}
        first == CHOOSE i \in hits : \A j \in hits : i <= j
    IN IF hits = {} THEN profiles
       ELSE [profiles EXCEPT ![first].last_used = now]

\* set_active_profile without the test that the profile exists
set_active_profile_no_existence_check(s, profile_id) ==
    LET registry == _load_profiles_registry(s)
        profiles == registry.profiles
        data == [registry EXCEPT
                    !.active_profile = profile_id,
                    !.profiles = TouchFirst(profiles, profile_id, s.clock)]
    IN [st |-> _save_profiles_registry([s EXCEPT !.cache = profile_id], data),
        ret |-> TRUE]

\* set_active_profile that forgets to update the module global
set_active_profile_stale_cache(s, profile_id) ==
    LET registry == _load_profiles_registry(s)
        profiles == registry.profiles
    IN IF profile_id \notin Ids(profiles) THEN [st |-> s, ret |-> FALSE]
       ELSE LET data == [registry EXCEPT
                            !.active_profile = profile_id,
                            !.profiles = TouchFirst(profiles, profile_id, s.clock)]
            IN [st |-> _save_profiles_registry(s, data), ret |-> TRUE]

set_active_profile(s, profile_id) ==
    LET registry == _load_profiles_registry(s)
        profiles == registry.profiles
    IN IF profile_id \notin Ids(profiles) THEN [st |-> s, ret |-> FALSE]
       ELSE LET data == [registry EXCEPT
                            !.active_profile = profile_id,
                            !.profiles = TouchFirst(profiles, profile_id, s.clock)]
            IN [st |-> _save_profiles_registry([s EXCEPT !.cache = profile_id], data),
                ret |-> TRUE]

Result(ok, msg) == [ok |-> ok, msg |-> msg]

\* create_profile whose count check is > instead of >=
create_profile_count_off_by_one(s, display_name) ==
    LET profile_id == sanitize_profile_name(display_name)
        registry == _load_profiles_registry(s)
        new_profile == Profile(profile_id, display_name, s.clock, s.clock)
        data == [registry EXCEPT !.profiles = Append(@, new_profile)]
    IN IF Len(display_name) < MIN_PROFILE_NAME_LENGTH
       THEN [st |-> s, ret |-> Result(FALSE, "Profile name is too short.")]
       ELSE IF Len(display_name) > MAX_PROFILE_NAME_LENGTH
       THEN [st |-> s,
             ret |-> Result(FALSE, "Profile name must be {MAX_PROFILE_NAME_LENGTH} characters or less.")]
       ELSE IF Len(list_profiles(s)) > MAX_PROFILES
       THEN [st |-> s,
             ret |-> Result(FALSE, "Maximum profiles ({MAX_PROFILES}) reached. Delete unused profiles first.")]
       ELSE IF profile_id = <<>>
       THEN [st |-> s, ret |-> Result(FALSE, "Profile name contains only invalid characters.")]
       ELSE IF Lower(profile_id) \in RESERVED_NAMES
       THEN [st |-> s, ret |-> Result(FALSE, "'{display_name}' is a reserved name.")]
       ELSE IF profile_exists(s, profile_id)
       THEN [st |-> s, ret |-> Result(FALSE, "Profile '{display_name}' already exists.")]
       ELSE [st |-> _save_profiles_registry(get_profile_data_dir(s, profile_id), data),
             ret |-> Result(TRUE, "Profile '{display_name}' created successfully.")]

\* create_profile without the profile_exists check
create_profile_no_duplicate_check(s, display_name) ==
    LET profile_id == sanitize_profile_name(display_name)
        registry == _load_profiles_registry(s)
        new_profile == Profile(profile_id, display_name, s.clock, s.clock)
        data == [registry EXCEPT !.profiles = Append(@, new_profile)]
    IN IF Len(display_name) < MIN_PROFILE_NAME_LENGTH
       THEN [st |-> s, ret |-> Result(FALSE, "Profile name is too short.")]
       ELSE IF Len(display_name) > MAX_PROFILE_NAME_LENGTH
       THEN [st |-> s,
             ret |-> Result(FALSE, "Profile name must be {MAX_PROFILE_NAME_LENGTH} characters or less.")]
       ELSE IF Len(list_profiles(s)) >= MAX_PROFILES
       THEN [st |-> s,
             ret |-> Result(FALSE, "Maximum profiles ({MAX_PROFILES}) reached. Delete unused profiles first.")]
       ELSE IF profile_id = <<>>
       THEN [st |-> s, ret |-> Result(FALSE, "Profile name contains only invalid characters.")]
       ELSE IF Lower(profile_id) \in RESERVED_NAMES
       THEN [st |-> s, ret |-> Result(FALSE, "'{display_name}' is a reserved name.")]
       ELSE [st |-> _save_profiles_registry(get_profile_data_dir(s, profile_id), data),
             ret |-> Result(TRUE, "Profile '{display_name}' created successfully.")]

create_profile(s, display_name) ==
    LET profile_id == sanitize_profile_name(display_name)
        registry == _load_profiles_registry(s)
        new_profile == Profile(profile_id, display_name, s.clock, s.clock)
        data == [registry EXCEPT !.profiles = Append(@, new_profile)]
    IN IF Len(display_name) < MIN_PROFILE_NAME_LENGTH
       THEN [st |-> s, ret |-> Result(FALSE, "Profile name is too short.")]
       ELSE IF Len(display_name) > MAX_PROFILE_NAME_LENGTH
       THEN [st |-> s,
             ret |-> Result(FALSE, "Profile name must be {MAX_PROFILE_NAME_LENGTH} characters or less.")]
       ELSE IF Len(list_profiles(s)) >= MAX_PROFILES
       THEN [st |-> s,
             ret |-> Result(FALSE, "Maximum profiles ({MAX_PROFILES}) reached. Delete unused profiles first.")]
       ELSE IF profile_id = <<>>
       THEN [st |-> s, ret |-> Result(FALSE, "Profile name contains only invalid characters.")]
       ELSE IF Lower(profile_id) \in RESERVED_NAMES
       THEN [st |-> s, ret |-> Result(FALSE, "'{display_name}' is a reserved name.")]
       ELSE IF profile_exists(s, profile_id)
       THEN [st |-> s, ret |-> Result(FALSE, "Profile '{display_name}' already exists.")]
       ELSE [st |-> _save_profiles_registry(get_profile_data_dir(s, profile_id), data),
             ret |-> Result(TRUE, "Profile '{display_name}' created successfully.")]

\* a directory with a file that another process holds open: the entry HELD
\* of the directory names the documents shutil.rmtree removes before it
\* reaches that file and raises
HELD == ".held"
Held(s, profile_id) ==
    profile_id \in DOMAIN s.files /\ HELD \in DOMAIN s.files[profile_id]

\* shutil.rmtree(profile_dir) when the directory exists
rmtree(s, profile_id) ==
    IF Held(s, profile_id)
    THEN [s EXCEPT !.files[profile_id] =
                      [f \in DOMAIN @ \ @[HELD] |-> @[f]]]
    ELSE [s EXCEPT !.files = [d \in DOMAIN s.files \ {profile_id} |-> s.files[d]]]

\* delete_profile without the "default" guard
delete_profile_no_default_guard(s, profile_id) ==
    LET active == get_active_profile_id(s)
        s1 == active.st
        registry == _load_profiles_registry(s1)
        data == [registry EXCEPT
                    !.profiles = SelectSeq(@, LAMBDA p : p.id # profile_id)]
    IN IF profile_id = active.ret
       THEN [st |-> s1,
             ret |-> Result(FALSE, "Cannot delete the currently active profile. Switch to another profile first.")]
       ELSE IF ~profile_exists(s1, profile_id)
       THEN [st |-> s1, ret |-> Result(FALSE, "Profile '{profile_id}' does not exist.")]
       ELSE [st |-> rmtree(_save_profiles_registry(s1, data), profile_id),
             ret |-> Result(TRUE, "Profile deleted successfully.")]

\* delete_profile without the active-profile guard
delete_profile_no_active_guard(s, profile_id) ==
    LET registry == _load_profiles_registry(s)
        data == [registry EXCEPT
                    !.profiles = SelectSeq(@, LAMBDA p : p.id # profile_id)]
    IN IF profile_id = DEFAULT
       THEN [st |-> s, ret |-> Result(FALSE, "Cannot delete the default profile.")]
       ELSE IF ~profile_exists(s, profile_id)
       THEN [st |-> s, ret |-> Result(FALSE, "Profile '{profile_id}' does not exist.")]
       ELSE [st |-> rmtree(_save_profiles_registry(s, data), profile_id),
             ret |-> Result(TRUE, "Profile deleted successfully.")]

\* delete_profile whose active guard reads the module global instead of
\* calling get_active_profile_id()
delete_profile_guard_reads_global(s, profile_id) ==
    LET registry == _load_profiles_registry(s)
        data == [registry EXCEPT
                    !.profiles = SelectSeq(@, LAMBDA p : p.id # profile_id)]
    IN IF profile_id = DEFAULT
       THEN [st |-> s, ret |-> Result(FALSE, "Cannot delete the default profile.")]
       ELSE IF profile_id = s.cache
       THEN [st |-> s,
             ret |-> Result(FALSE, "Cannot delete the currently active profile. Switch to another profile first.")]
       ELSE IF ~profile_exists(s, profile_id)
       THEN [st |-> s, ret |-> Result(FALSE, "Profile '{profile_id}' does not exist.")]
       ELSE [st |-> rmtree(_save_profiles_registry(s, data), profile_id),
             ret |-> Result(TRUE, "Profile deleted successfully.")]

\* delete_profile that updates the registry and leaves the directory behind
delete_profile_keeps_directory(s, profile_id) ==
    LET active == get_active_profile_id(s)
        s1 == active.st
        registry == _load_profiles_registry(s1)
        data == [registry EXCEPT
                    !.profiles = SelectSeq(@, LAMBDA p : p.id # profile_id)]
    IN IF profile_id = DEFAULT
       THEN [st |-> s, ret |-> Result(FALSE, "Cannot delete the default profile.")]
       ELSE IF profile_id = active.ret
       THEN [st |-> s1,
             ret |-> Result(FALSE, "Cannot delete the currently active profile. Switch to another profile first.")]
       ELSE IF ~profile_exists(s1, profile_id)
       THEN [st |-> s1, ret |-> Result(FALSE, "Profile '{profile_id}' does not exist.")]
       ELSE [st |-> _save_profiles_registry(s1, data),
             ret |-> Result(TRUE, "Profile deleted successfully.")]

delete_profile(s, profile_id) ==
    LET active == get_active_profile_id(s)
        s1 == active.st
        registry == _load_profiles_registry(s1)
        data == [registry EXCEPT
                    !.profiles = SelectSeq(@, LAMBDA p : p.id # profile_id)]
    IN IF profile_id = DEFAULT
       THEN [st |-> s, ret |-> Result(FALSE, "Cannot delete the default profile.")]
       ELSE IF profile_id = active.ret
       THEN [st |-> s1,
             ret |-> Result(FALSE, "Cannot delete the currently active profile. Switch to another profile first.")]
       ELSE IF ~profile_exists(s1, profile_id)
       THEN [st |-> s1, ret |-> Result(FALSE, "Profile '{profile_id}' does not exist.")]
       ELSE [st |-> rmtree(_save_profiles_registry(s1, data), profile_id),
             ret |-> Result(TRUE, "Profile deleted successfully.")]

\* only the first profile with this id is renamed ("break" after it)
RenameFirst(profiles, profile_id, new_display_name) ==
    LET hits == {i \in 1..Len(profiles) : profiles[i].id = profile_id}
        first == CHOOSE i \in hits : \A j \in hits : i <= j
    IN IF hits = {} THEN profiles
       ELSE [profiles EXCEPT ![first].display_name = new_display_name]

\* rename_profile without the upper bound on the length of the name
rename_profile_no_length_check(s, profile_id, new_display_name) ==
    LET registry == _load_profiles_registry(s)
        data == [registry EXCEPT
                    !.profiles = RenameFirst(@, profile_id, new_display_name)]
    IN IF Len(new_display_name) < MIN_PROFILE_NAME_LENGTH
       THEN [st |-> s, ret |-> Result(FALSE, "Profile name is too short.")]
       ELSE IF ~profile_exists(s, profile_id)
       THEN [st |-> s, ret |-> Result(FALSE, "Profile '{profile_id}' does not exist.")]
       ELSE [st |-> _save_profiles_registry(s, data),
             ret |-> Result(TRUE, "Profile renamed to '{new_display_name}'.")]

rename_profile(s, profile_id, new_display_name) ==
    LET registry == _load_profiles_registry(s)
        data == [registry EXCEPT
                    !.profiles = RenameFirst(@, profile_id, new_display_name)]
    IN IF Len(new_display_name) < MIN_PROFILE_NAME_LENGTH
       THEN [st |-> s, ret |-> Result(FALSE, "Profile name is too short.")]
       ELSE IF Len(new_display_name) > MAX_PROFILE_NAME_LENGTH
       THEN [st |-> s,
             ret |-> Result(FALSE, "Profile name must be {MAX_PROFILE_NAME_LENGTH} characters or less.")]
       ELSE IF ~profile_exists(s, profile_id)
       THEN [st |-> s, ret |-> Result(FALSE, "Profile '{profile_id}' does not exist.")]
       ELSE [st |-> _save_profiles_registry(s, data),
             ret |-> Result(TRUE, "Profile renamed to '{new_display_name}'.")]

\* cleanup_orphaned_folders that never removes the directory "default"
cleanup_orphaned_folders_spares_default(s) ==
    LET registered_ids == Ids(_load_profiles_registry(s).profiles) \cup {DEFAULT}
        orphans == DOMAIN s.files \ registered_ids
    IN IF IterRaises(s) THEN [st |-> s, ret |-> Raised("TypeError")]
       ELSE [st |-> [s EXCEPT !.files = [d \in DOMAIN s.files \ orphans |-> s.files[d]]],
             ret |-> Cardinality(orphans)]

\* every sub-directory of the profiles root that is not registered is removed
cleanup_orphaned_folders(s) ==
    LET registered_ids == Ids(_load_profiles_registry(s).profiles)
        orphans == DOMAIN s.files \ registered_ids
        removed == { d \in orphans : ~Held(s, d) }
    IN IF IterRaises(s) THEN [st |-> s, ret |-> Raised("TypeError")]
       ELSE [st |-> [s EXCEPT !.files = [d \in DOMAIN s.files \ removed |->
                                           IF d \in orphans THEN rmtree(s, d).files[d]
                                           ELSE s.files[d]]],
             ret |-> Cardinality(removed)]

\* (profile_exists at the start of _ensure_default_profile is the first to
\* iterate the profiles; nothing has been written when it raises)
initialize_profiles_system(s) ==
    LET s1 == _ensure_default_profile(s)
        active == get_active_profile_id(s1)
        s2 == active.st
        s3 == IF ~profile_exists(s2, active.ret)
              THEN set_active_profile(s2, DEFAULT).st ELSE s2
    IN IF IterRaises(s) THEN [st |-> s, ret |-> Raised("TypeError")]
       ELSE [st |-> cleanup_orphaned_folders(s3).st, ret |-> [returned |-> None]]

-----------------------------------------------------------------------------
(* JSON values and the profile-scoped store (core/storage.py) *)

JNull == [t |-> "null", b |-> FALSE, n |-> 0, s |-> <<>>, l |-> <<>>, d |-> <<>>]
JBool(b) == [JNull EXCEPT !.t = "bool", !.b = b]
JNum(n) == [JNull EXCEPT !.t = "num", !.n = n]
JStr(s) == [JNull EXCEPT !.t = "str", !.s = s]
JList(q) == [JNull EXCEPT !.t = "list", !.l = q]
JDict(f) == [JNull EXCEPT !.t = "dict", !.d = f]

\* the empty dict {}
EmptyDict == JDict(<<>>)

\* a file whose content json.load cannot parse
Unparsable == [JNull EXCEPT !.t = "unparsable"]

TRACKER_FILENAME == "tracker.json"
GOALS_FILENAME == "goals_v2.json"

\* the profile a store call resolves to, and the state after resolving it
ResolveProfile(s, profile_id) ==
    IF profile_id = None THEN get_active_profile_id(s)
    ELSE [st |-> s, ret |-> profile_id]

load_profile_json(s, filename, default, profile_id) ==
    LET Read(who) ==
          LET s1 == get_profile_data_dir(who.st, who.ret)
              dir == s1.files[who.ret]
          IN [st |-> s1,
              ret |-> IF filename \notin DOMAIN dir THEN default
                      ELSE IF dir[filename].t = "unparsable" THEN default
                      ELSE dir[filename]]
    IN CHOOSE out \in { Read(who) : who \in { ResolveProfile(s, profile_id) } } : TRUE

\* save_profile_json that ignores the profile and writes one shared directory
save_profile_json_shared_dir(s, filename, data, profile_id) ==
    LET s1 == get_profile_data_dir(s, DEFAULT)
    IN [s1 EXCEPT !.files[DEFAULT] = (filename :> data) @@ @]

save_profile_json(s, filename, data, profile_id) ==
    LET Written(who) ==
          LET s1 == get_profile_data_dir(who.st, who.ret)
          IN [s1 EXCEPT !.files[who.ret] = (filename :> data) @@ @]
    IN CHOOSE out \in { Written(who) : who \in { ResolveProfile(s, profile_id) } } : TRUE

(* Daily activity (core/logic_tracker.py) *)

load_daily_activity(s) ==
    LET r == load_profile_json(s, TRACKER_FILENAME, EmptyDict, None)
    IN [st |-> r.st, ret |-> IF r.ret.t # "dict" THEN EmptyDict ELSE r.ret]

save_daily_activity(s, activity) ==
    save_profile_json(s, TRACKER_FILENAME, activity, None)

-----------------------------------------------------------------------------
(* Python values: truthiness, str(), list(), dict.get *)

\* "not x"
Falsy(x) ==
    \/ x.t = "null"
    \/ x.t = "bool" /\ ~x.b
    \/ x.t = "num" /\ x.n = 0
    \/ x.t = "str" /\ x.s = <<>>
    \/ x.t = "list" /\ x.l = <<>>
    \/ x.t = "dict" /\ DOMAIN x.d = {}

\* "x or d"
Or(x, d) == IF Falsy(x) THEN d ELSE x

\* d.get(k) and d.get(k, default)
GetOr(d, k, default) == IF k \in DOMAIN d.d THEN d.d[k] ELSE default
Get(d, k) == GetOr(d, k, JNull)

DigitChar(n) == <<"0", "1", "2", "3", "4", "5", "6", "7", "8", "9">>[n + 1]

RECURSIVE Decimal(_)
Decimal(n) == IF n < 10 THEN <<DigitChar(n)>> ELSE Decimal(n \div 10) \o <<DigitChar(n % 10)>>

\* str(x); the repr of a list or dict is abbreviated to its brackets
PyStr(x) ==
    CASE x.t = "str" -> x.s
      [] x.t = "bool" -> IF x.b THEN <<"T", "r", "u", "e">> ELSE <<"F", "a", "l", "s", "e">>
      [] x.t = "null" -> <<"N", "o", "n", "e">>
      [] x.t = "num" -> IF x.n < 0 THEN <<"-">> \o Decimal(-x.n) ELSE Decimal(x.n)
      [] x.t = "list" -> <<"[", "]">>
      [] OTHER -> <<"{", "}">>

\* list(x): the elements of a list, the characters of a str, the keys of a
\* dict (each key abbreviated to "k"); TypeError for a value that is not iterable
PyList(x) ==
    CASE x.t = "list" -> x
      [] x.t = "str" -> JList([i \in 1..Len(x.s) |-> JStr(<<x.s[i]>>)])
      [] x.t = "dict" -> JList([i \in 1..Cardinality(DOMAIN x.d) |-> JStr(<<"k">>)])
      [] OTHER -> Raised("TypeError")

-----------------------------------------------------------------------------
(* Monthly goals (core/logic_goals.py) *)

E == JStr(<<>>)
GENERAL == JStr(<<"G", "e", "n", "e", "r", "a", "l">>)

\* the MonthlyGoals record (core/models.py)
MonthlyGoals(month, goals, completed, notes, archived, categories, reflections, subtasks, subtasks_done, created_at, completed_at) ==
    [month |-> month, goals |-> goals, completed |-> completed, notes |-> notes,
     archived |-> archived, categories |-> categories, reflections |-> reflections,
     subtasks |-> subtasks, subtasks_done |-> subtasks_done,
     created_at |-> created_at, completed_at |-> completed_at]

GoalFields ==
    {"month", "goals", "completed", "notes", "archived", "categories", "reflections",
     "subtasks", "subtasks_done", "created_at", "completed_at"}

\* MonthlyGoals.to_dict(): the record's fields as a JSON object
to_dict(g) == JDict([f \in GoalFields |-> IF f = "month" THEN JStr(g.month) ELSE g[f]])

BlankGoals(month) ==
    MonthlyGoals(month,
                 JList(<<E, E, E>>),
                 JList(<<JBool(FALSE), JBool(FALSE), JBool(FALSE)>>),
                 E,
                 JBool(FALSE),
                 JList(<<GENERAL, GENERAL, GENERAL>>),
                 JList(<<E, E, E>>),
                 JList(<<JList(<<>>), JList(<<>>), JList(<<>>)>>),
                 JList(<<JList(<<>>), JList(<<>>), JList(<<>>)>>),
                 JList(<<E, E, E>>),
                 JList(<<E, E, E>>))

\* (r is bound to the one result of the call it names, here and below)
load_goals(s) ==
    CHOOSE out \in { [st |-> r.st, ret |-> IF r.ret.t # "dict" THEN EmptyDict ELSE r.ret] :
                       r \in { load_profile_json(s, GOALS_FILENAME, EmptyDict, None) } } : TRUE

RECURSIVE PadTo(_, _, _)
PadTo(q, default, n) == IF Len(q) < n THEN PadTo(Append(q, default), default, n) ELSE q

\* the padding without the final lst[:target_len]
_pad_list_no_truncation(lst, default) ==
    LET q == PyList(lst)
    IN IF IsRaised(q) THEN q ELSE JList(PadTo(q.l, default, 3))

\* _pad_list(lst, default): pad to three entries, then cut to three
_pad_list(lst, default) ==
    LET q == PyList(lst)
    IN IF IsRaised(q) THEN q ELSE JList(Prefix(PadTo(q.l, default, 3), 3))

\* the inner list of slot i, [] when the slot holds no list
SlotList(outer, i) == IF outer[i].t = "list" THEN outer[i].l ELSE <<>>

\* norm_subtasks: str() of every subtask of each of the three slots
NormSubtasks(subtasks) ==
    LET outer == PadTo(IF subtasks.t = "list" THEN subtasks.l ELSE <<>>, JList(<<>>), 3)
    IN JList([i \in 1..3 |->
                LET st_list == SlotList(outer, i)
                IN JList([k \in 1..Len(st_list) |-> JStr(PyStr(st_list[k]))])])

\* norm_subtasks_done: the done flags of each slot, padded with False to the
\* length of the slot's subtasks, cut to it, each through bool()
NormSubtasksDone(subtasks, subtasks_done) ==
    LET outer == PadTo(IF subtasks.t = "list" THEN subtasks.l ELSE <<>>, JList(<<>>), 3)
        outer_done == PadTo(IF subtasks_done.t = "list" THEN subtasks_done.l ELSE <<>>,
                            JList(<<>>), 3)
    IN JList([i \in 1..3 |->
                LET n == Len(SlotList(outer, i))
                    done_list == PadTo(SlotList(outer_done, i), JBool(FALSE), n)
                IN JList([k \in 1..n |-> JBool(~Falsy(done_list[k]))])])

load_goals_for_month(s, month) ==
    LET Loaded(r) ==
          LET raw == Get(r.ret, month)
              goals == _pad_list(Or(Get(raw, "goals"), JList(<<E, E, E>>)), E)
              completed == _pad_list(Or(Get(raw, "completed"),
                                        JList(<<JBool(FALSE), JBool(FALSE), JBool(FALSE)>>)),
                                     JBool(FALSE))
              notes == Or(Get(raw, "notes"), E)
              archived == JBool(~Falsy(GetOr(raw, "archived", JBool(FALSE))))
              categories == _pad_list(Or(Get(raw, "categories"), JList(<<>>)), GENERAL)
              reflections == _pad_list(Or(Get(raw, "reflections"), JList(<<>>)), E)
              created_at == _pad_list(Or(Get(raw, "created_at"), JList(<<>>)), E)
              completed_at == _pad_list(Or(Get(raw, "completed_at"), JList(<<>>)), E)
              subtasks == Or(Get(raw, "subtasks"), JList(<<>>))
              subtasks_done == Or(Get(raw, "subtasks_done"), JList(<<>>))
              raises == \/ IsRaised(goals) \/ IsRaised(completed) \/ IsRaised(categories)
                        \/ IsRaised(reflections) \/ IsRaised(created_at)
                        \/ IsRaised(completed_at)
          IN [st |-> r.st,
              ret |-> IF raw.t # "dict" THEN BlankGoals(month)
                      ELSE IF raises THEN Raised("TypeError")
                      ELSE MonthlyGoals(month, goals, completed, notes, archived, categories,
                                        reflections, NormSubtasks(subtasks),
                                        NormSubtasksDone(subtasks, subtasks_done),
                                        created_at, completed_at)]
    IN CHOOSE out \in { Loaded(r) : r \in { load_goals(s) } } : TRUE

\* _all_blank_str(items): all(not str(x).strip() for x in items)
_all_blank_str(items) == \A i \in 1..Len(items) : Strip(PyStr(items[i])) = <<>>

\* _all_false(items): all(not bool(x) for x in items)
_all_false(items) == \A i \in 1..Len(items) : Falsy(items[i])

\* flat_subtasks: the items of every slot that is a list
RECURSIVE Flatten(_)
Flatten(lists) ==
    IF lists = <<>> THEN <<>>
    ELSE (IF lists[1].t = "list" THEN lists[1].l ELSE <<>>) \o Flatten(Tail(lists))

\* the guard without its test of the completed flags
is_effectively_blank_ignores_completed(new_obj) ==
    LET goals_list == Or(Get(new_obj, "goals"), JList(<<>>))
        reflections_list == Or(Get(new_obj, "reflections"), JList(<<>>))
        subtasks_list == Or(Get(new_obj, "subtasks"), JList(<<>>))
        notes_val == Or(Get(new_obj, "notes"), E)
    IN /\ _all_blank_str(goals_list.l)
       /\ _all_blank_str(reflections_list.l)
       /\ _all_blank_str(Flatten(subtasks_list.l))
       /\ Strip(PyStr(notes_val)) = <<>>

is_effectively_blank(new_obj) ==
    LET goals_list == Or(Get(new_obj, "goals"), JList(<<>>))
        completed_list == Or(Get(new_obj, "completed"), JList(<<>>))
        reflections_list == Or(Get(new_obj, "reflections"), JList(<<>>))
        subtasks_list == Or(Get(new_obj, "subtasks"), JList(<<>>))
        notes_val == Or(Get(new_obj, "notes"), E)
    IN /\ _all_blank_str(goals_list.l)
       /\ _all_false(completed_list.l)
       /\ _all_blank_str(reflections_list.l)
       /\ _all_blank_str(Flatten(subtasks_list.l))
       /\ Strip(PyStr(notes_val)) = <<>>

\* d[k] = v on a JSON object
Put(d, k, v) == JDict((k :> v) @@ d.d)

save_goals_for_month(s, goals, source) ==
    LET plain == to_dict(goals)
        new_obj == IF source # <<>> THEN Put(plain, "last_saved_by", JStr(source)) ELSE plain
        Saved(r) ==
            LET data == r.ret
                existing == Get(data, goals.month)
            IN IF existing.t = "dict" /\ is_effectively_blank(new_obj)
               THEN r.st
               ELSE save_profile_json(r.st, GOALS_FILENAME,
                                      Put(data, goals.month, new_obj), None)
    IN CHOOSE out \in { Saved(r) : r \in { load_goals(s) } } : TRUE

\* code point of a character of a month key
Ord(c) ==
    CASE c = "-" -> 45
      [] c = "0" -> 48 [] c = "1" -> 49 [] c = "2" -> 50 [] c = "3" -> 51
      [] c = "4" -> 52 [] c = "5" -> 53 [] c = "6" -> 54 [] c = "7" -> 55
      [] c = "8" -> 56 [] c = "9" -> 57

\* a < b on str: lexicographic by code point, a proper prefix is smaller
RECURSIVE StrLess(_, _)
StrLess(a, b) ==
    IF b = <<>> THEN FALSE
    ELSE IF a = <<>> THEN TRUE
    ELSE IF a[1] # b[1] THEN Ord(a[1]) < Ord(b[1])
    ELSE StrLess(Tail(a), Tail(b))

\* the archival with "month <= current_month_id" as its test
auto_archive_past_goals_inclusive(s, current_month_id) ==
    LET Archive(r) ==
            LET data == r.ret
                due == {m \in DOMAIN data.d :
                           /\ data.d[m].t = "dict"
                           /\ (StrLess(m, current_month_id) \/ m = current_month_id)
                           /\ Falsy(GetOr(data.d[m], "archived", JBool(FALSE)))}
                marked == JDict([m \in DOMAIN data.d |->
                                   IF m \in due
                                   THEN Put(data.d[m], "archived", JBool(TRUE))
                                   ELSE data.d[m]])
            IN IF due = {} THEN r.st
               ELSE save_profile_json(r.st, GOALS_FILENAME, marked, None)
    IN CHOOSE out \in { Archive(r) : r \in { load_goals(s) } } : TRUE

auto_archive_past_goals(s, current_month_id) ==
    LET Archive(r) ==
            LET data == r.ret
                due == {m \in DOMAIN data.d :
                           /\ data.d[m].t = "dict"
                           /\ StrLess(m, current_month_id)
                           /\ Falsy(GetOr(data.d[m], "archived", JBool(FALSE)))}
                marked == JDict([m \in DOMAIN data.d |->
                                   IF m \in due
                                   THEN Put(data.d[m], "archived", JBool(TRUE))
                                   ELSE data.d[m]])
            IN IF due = {} THEN r.st
               ELSE save_profile_json(r.st, GOALS_FILENAME, marked, None)
    IN CHOOSE out \in { Archive(r) : r \in { load_goals(s) } } : TRUE

-----------------------------------------------------------------------------
(* The daily plan (core/logic_dailyplan.py) *)

PLAN_FILENAME == "dailyplan.json"

\* the DailyPlan record (core/models.py) and its to_dict()
DailyPlan(tasks, show_on_startup) == [tasks |-> tasks, show_on_startup |-> show_on_startup]
DailyPlan_to_dict(plan) ==
    JDict([f \in {"tasks", "show_on_startup"} |->
             IF f = "tasks" THEN plan.tasks ELSE plan.show_on_startup])

\* _default() of the daily plan
DefaultPlanDict ==
    JDict([f \in {"tasks", "show_on_startup"} |->
             IF f = "tasks" THEN JList(<<E, E, E, E>>) ELSE JBool(FALSE)])

\* [str(t) for t in items]
StrEach(items) == [i \in 1..Len(items) |-> JStr(PyStr(items[i]))]

\* the task slots read from the loaded document
PlanTasks(data) ==
    LET tasks_raw == Get(data, "tasks")
        tasks == IF tasks_raw.t = "list" THEN StrEach(tasks_raw.l) ELSE <<>>
        legacy == StrEach(<<GetOr(data, "morning", E), GetOr(data, "afternoon", E),
                            GetOr(data, "evening", E)>>)
    IN Prefix(PadTo(IF tasks = <<>> THEN legacy ELSE tasks, E, 4), 4)

load_daily_plan(s) ==
    LET Loaded(r) ==
            LET data == IF r.ret.t # "dict" THEN DefaultPlanDict ELSE r.ret
            IN [st |-> r.st,
                ret |-> DailyPlan(JList(PlanTasks(data)),
                                  JBool(~Falsy(GetOr(data, "show_on_startup", JBool(FALSE)))))]
    IN CHOOSE out \in { Loaded(r) :
                          r \in { load_profile_json(s, PLAN_FILENAME, DefaultPlanDict, None) } } : TRUE

save_daily_plan(s, plan) == save_profile_json(s, PLAN_FILENAME, DailyPlan_to_dict(plan), None)

-----------------------------------------------------------------------------
(* The balance index of a radar snapshot (core/logic_radar.py) *)

Skills == <<"reading", "listening", "speaking", "writing">>

Abs(x) == IF x < 0 THEN -x ELSE x
Min(a, b) == IF a < b THEN a ELSE b
Max(a, b) == IF a < b THEN b ELSE a

\* snapshot.get(k, 0) of an integer skill value
SkillValue(snapshot, k) == IF k \in DOMAIN snapshot THEN snapshot[k] ELSE 0

\* round(x) of Python for x = eighths / 8 >= 0: to the nearest integer, a tie
\* going to the even one
RoundEighths(eighths) ==
    LET q == eighths \div 8
        rem == eighths % 8
    IN IF rem < 4 THEN q
       ELSE IF rem > 4 THEN q + 1
       ELSE IF q % 2 = 0 THEN q ELSE q + 1

\* compute_balance_index with int(score) in place of int(round(score))
compute_balance_index_no_round(snapshot) ==
    LET values == [i \in 1..4 |-> SkillValue(snapshot, Skills[i])]
        avg4 == values[1] + values[2] + values[3] + values[4]
        deviations16 == Abs(4 * values[1] - avg4) + Abs(4 * values[2] - avg4)
                           + Abs(4 * values[3] - avg4) + Abs(4 * values[4] - avg4)
        max_deviation16 == 32
        score8 == 800 - 25 * Min(deviations16, max_deviation16)
    IN IF \A i \in 1..4 : values[i] = 0 THEN JNull
       ELSE JNum(Max(0, Min(100, score8 \div 8)))

\* The floats of the code are exact on integer skill values: avg is held as
\* 4 * avg, deviations as 16 * deviations and score as 8 * score.
compute_balance_index(snapshot) ==
    LET values == [i \in 1..4 |-> SkillValue(snapshot, Skills[i])]
        avg4 == values[1] + values[2] + values[3] + values[4]
        deviations16 == Abs(4 * values[1] - avg4) + Abs(4 * values[2] - avg4)
                           + Abs(4 * values[3] - avg4) + Abs(4 * values[4] - avg4)
        max_deviation16 == 32
        score8 == 800 - 25 * Min(deviations16, max_deviation16)
    IN IF \A i \in 1..4 : values[i] = 0 THEN JNull
       ELSE JNum(Max(0, Min(100, RoundEighths(score8))))

-----------------------------------------------------------------------------
(* Inputs of the operations *)

Slug_a == <<"a">>
Slug_b == <<"b">>
Slug_c == <<"c">>

\* a name of MAX_PROFILE_NAME_LENGTH + 1 characters
TooLongName == [i \in 1..(MAX_PROFILE_NAME_LENGTH + 1) |-> "a"]

\* display names offered to create_profile
NameInputs ==
    { <<>>,                                  \* too short
      TooLongName,                           \* too long
      <<" ">>,                               \* sanitizes to the empty slug
      <<"/", "?">>,                          \* only invalid characters
      <<"T", "e", "m", "p">>,                \* reserved
      <<" ", "D", "e", "f", "a", "u", "l", "t">>,  \* reserved
      <<"a">>, <<"A", " ">>,                 \* both sanitize to "a"
      <<"b">>, <<"c">> }

\* display names offered to rename_profile
RenameInputs == { <<>>, TooLongName, <<"X">> }

\* profile ids offered to the operations that take one
IdInputs == { DEFAULT, Slug_a, Slug_b, Slug_c }

Activity1 == JDict("2025-06-01" :> JDict("reading" :> JBool(TRUE)))
Activity2 == JDict("2025-06-02" :> JDict("listening" :> JBool(TRUE)))

ActivityInputs == { Activity1, Activity2 }

\* the store specification: profiles "a" and "b" beside default; "c" unregistered
StoreNames == { <<"a">>, <<"b">> }
StoreIds == { DEFAULT, Slug_a, Slug_b, Slug_c }

\* month keys "YYYY-MM"
M05 == <<"2", "0", "2", "5", "-", "0", "5">>
M06 == <<"2", "0", "2", "5", "-", "0", "6">>
M07 == <<"2", "0", "2", "5", "-", "0", "7">>
Months == { M05, M06, M07 }

\* the source argument of save_month_goals: none, or the view's name
NoSource == <<>>
GOALS_VIEW == <<"g", "o", "a", "l", "s", "_", "v", "i", "e", "w">>
Sources == { NoSource, GOALS_VIEW }

Txt(c) == JStr(<<c>>)
Stamp == JStr(<<"2", "0", "2", "5", "-", "0", "5", "-", "0", "1">>)
T == JBool(TRUE)
F == JBool(FALSE)

\* MonthlyGoals objects a caller may hold
GoalOnly(m) == [BlankGoals(m) EXCEPT !.goals = JList(<<Txt("a"), E, E>>),
                                     !.created_at = JList(<<Stamp, E, E>>)]
WhitespaceOnly(m) == [BlankGoals(m) EXCEPT !.goals = JList(<<Txt(" "), E, E>>),
                                           !.notes = Txt("\n")]
MetadataOnly(m) == [BlankGoals(m) EXCEPT !.categories = JList(<<Txt("W"), GENERAL, GENERAL>>),
                                         !.created_at = JList(<<Stamp, E, E>>),
                                         !.archived = T]
CompletedOnly(m) == [BlankGoals(m) EXCEPT !.completed = JList(<<F, T, F>>)]
ReflectionOnly(m) == [BlankGoals(m) EXCEPT !.reflections = JList(<<E, E, Txt("r")>>)]
SubtaskOnly(m) == [BlankGoals(m) EXCEPT !.subtasks = JList(<<JList(<<>>), JList(<<Txt("s")>>), JList(<<>>)>>),
                                        !.subtasks_done = JList(<<JList(<<>>), JList(<<F>>), JList(<<>>)>>)]
BlankSubtask(m) == [BlankGoals(m) EXCEPT !.subtasks = JList(<<JList(<<Txt(" ")>>), JList(<<>>), JList(<<>>)>>),
                                         !.subtasks_done = JList(<<JList(<<T>>), JList(<<>>), JList(<<>>)>>)]
NotesOnly(m) == [BlankGoals(m) EXCEPT !.notes = Txt("n")]

\* a full record
RichGoals(m) ==
    MonthlyGoals(m,
                 JList(<<Txt("a"), Txt("b"), E>>),
                 JList(<<T, F, F>>),
                 E,
                 F,
                 JList(<<Txt("W"), GENERAL, GENERAL>>),
                 JList(<<Txt("r"), E, E>>),
                 JList(<<JList(<<Txt("s"), Txt("t")>>), JList(<<Txt("u")>>), JList(<<>>)>>),
                 JList(<<JList(<<T, F>>), JList(<<F>>), JList(<<>>)>>),
                 JList(<<Stamp, Stamp, E>>),
                 JList(<<Stamp, E, E>>))

\* the objects the save action is given, and all those the properties try
SavedGoals == { BlankGoals(M05) } \cup { GoalOnly(m) : m \in Months }

GoalsInputs ==
    UNION { { BlankGoals(m), WhitespaceOnly(m), MetadataOnly(m), BlankSubtask(m),
              GoalOnly(m), CompletedOnly(m), ReflectionOnly(m), SubtaskOnly(m),
              NotesOnly(m), RichGoals(m) } : m \in Months }

\* stored entries of another shape than the program writes
ArrayFields ==
    {"goals", "completed", "categories", "reflections", "subtasks", "subtasks_done",
     "created_at", "completed_at"}

DamageKinds == {"missing", "null", "empty", "short", "long", "inner_short", "inner_long"}

DropLast(q) == IF q = <<>> THEN q ELSE SubSeq(q, 1, Len(q) - 1)
Repeat(q) == IF q = <<>> THEN q ELSE Append(q, q[1])

\* the first slot of a list of lists made one item shorter or longer
OnFirstSlot(q, kind) ==
    IF q # <<>> /\ q[1].t = "list"
    THEN [q EXCEPT ![1] = JList(IF kind = "inner_short" THEN DropLast(q[1].l)
                                ELSE Repeat(q[1].l))]
    ELSE q

DamagedValue(v, kind) ==
    CASE kind = "null" -> JNull
      [] kind = "empty" -> JList(<<>>)
      [] kind = "short" -> JList(SubSeq(v.l, 1, 2))
      [] kind = "long" -> JList(Append(v.l, v.l[1]))
      [] kind = "inner_short" -> JList(OnFirstSlot(v.l, kind))
      [] kind = "inner_long" -> JList(OnFirstSlot(v.l, kind))
      [] kind = "number" -> JNum(5)
      [] kind = "true" -> JBool(TRUE)
      [] kind = "string" -> JStr(<<"a", "b">>)
      [] kind = "object" -> JDict("x" :> JNum(1))
      [] kind = "slot_number" -> JList([v.l EXCEPT ![1] = JNum(7)])
      [] kind = "slot_string" -> JList([v.l EXCEPT ![1] = JStr(<<"s">>)])
      [] OTHER -> v

\* entry with the fields of DOMAIN how damaged: how[f] is the kind of damage
Damaged(entry, how) ==
    JDict([f \in DOMAIN entry.d \ {g \in DOMAIN how : how[g] = "missing"} |->
             IF f \in DOMAIN how THEN DamagedValue(entry.d[f], how[f]) ELSE entry.d[f]])

InitEntries ==
    UNION { { Damaged(to_dict(RichGoals(M05)), how) : how \in [D -> DamageKinds] } :
            D \in { X \in SUBSET ArrayFields : Cardinality(X) <= MaxDamaged } }

\* values of another JSON type than the field's: a number, true, a string or
\* an object in place of the list, or in place of its first slot
TypeKinds == {"number", "true", "string", "object", "slot_number", "slot_string"}

TypeEntries ==
    UNION { { Damaged(to_dict(RichGoals(M05)), how) : how \in [D -> TypeKinds] } :
            D \in { X \in SUBSET ArrayFields : X # {} /\ Cardinality(X) <= MaxDamaged } }

\* goals_v2.json as found on disk
GoalsDocs ==
    { JDict(M05 :> e) : e \in InitEntries \cup TypeEntries }
       \cup { Unparsable, JList(<<>>), JDict(M05 :> JNull), EmptyDict }

\* dailyplan.json as found on disk
PlanDict(tasks, extra) == JDict(("tasks" :> tasks) @@ extra)
PlanDocs ==
    { Unparsable, JNum(3), EmptyDict, DefaultPlanDict,
      PlanDict(JList(<<Txt("a"), Txt("b")>>), ("show_on_startup" :> T)),
      PlanDict(JList(<<Txt("a"), Txt("b"), E, Txt("d"), Txt("e")>>), ("show_on_startup" :> F)),
      PlanDict(JList(<<>>), ("morning" :> Txt("m")) @@ ("evening" :> JNull)),
      PlanDict(JStr(<<"a", "b">>), ("afternoon" :> JNum(2))),
      PlanDict(JList(<<JNum(1), JNull, T, Txt("x")>>), ("show_on_startup" :> JNum(1))),
      JDict(("morning" :> Txt("m")) @@ ("show_on_startup" :> Txt("y"))) }

\* tracker.json as found on disk
TrackerDocs == { Unparsable, JList(<<>>), EmptyDict, Activity1 }

\* one document of one module in the default profile's directory
StoredDocs ==
    { <<GOALS_FILENAME, d>> : d \in GoalsDocs }
       \cup { <<PLAN_FILENAME, d>> : d \in PlanDocs }
       \cup { <<TRACKER_FILENAME, d>> : d \in TrackerDocs }

-----------------------------------------------------------------------------
(* The state machine *)

Apply(s) ==
    /\ regFile' = s.reg
    /\ files' = s.files
    /\ cache' = s.cache
    /\ clock' = s.clock
    /\ UNCHANGED <<input, output, main_window>>

\* the profile the registry document names as active
RegistryActive == _load_profiles_registry(State).active_profile

\* history of saves: a removed directory takes its document with it
Forget(h, dirs) == [d \in DOMAIN h \cap dirs |-> h[d]]

\* a fresh installation: no registry file, no profile directory, no cached id
Init ==
    /\ regFile = NoFile
    /\ files = <<>>
    /\ cache = None
    /\ clock = 0
    /\ saved = <<>>
    /\ input = None
    /\ output = None
    /\ main_window = NoWindow

\* time passes: datetime.now() gives a later value
Tick ==
    /\ clock < MaxClock
    /\ clock' = clock + 1
    /\ UNCHANGED <<regFile, files, cache, saved, input, output, main_window>>

\* the process ends and a new one starts: the module global is None again
Restart ==
    /\ cache # None
    /\ cache' = None
    /\ UNCHANGED <<regFile, files, clock, saved, input, output, main_window>>

Initialize ==
    /\ Apply(initialize_profiles_system(State).st)
    /\ saved' = Forget(saved, DOMAIN files')

GetActive ==
    /\ Apply(get_active_profile_id(State).st)
    /\ saved' = Forget(saved, DOMAIN files')

SetActive(id) ==
    /\ Apply(set_active_profile(State, id).st)
    /\ saved' = Forget(saved, DOMAIN files')

Create(name) ==
    /\ Apply(create_profile(State, name).st)
    /\ saved' = Forget(saved, DOMAIN files')

Delete(id) ==
    /\ Apply(delete_profile(State, id).st)
    /\ saved' = Forget(saved, DOMAIN files')

Rename(id, name) ==
    /\ Apply(rename_profile(State, id, name).st)
    /\ saved' = Forget(saved, DOMAIN files')

LoadActivity ==
    /\ Apply(load_daily_activity(State).st)
    /\ saved' = Forget(saved, DOMAIN files')

SaveActivity(activity) ==
    /\ Apply(save_daily_activity(State, activity))
    /\ saved' = (RegistryActive :> activity) @@ saved

\* store calls that name the profile
LoadJson(id) ==
    /\ Apply(load_profile_json(State, TRACKER_FILENAME, EmptyDict, id).st)
    /\ saved' = Forget(saved, DOMAIN files')

SaveJson(id, activity) ==
    /\ Apply(save_profile_json(State, TRACKER_FILENAME, activity, id))
    /\ saved' = (id :> activity) @@ saved

\* The registry's life cycle, with documents in the profile directories
\* (within one second: every timestamp taken is the same)
Next ==
    \/ Restart
    \/ Initialize
    \/ GetActive
    \/ \E id \in IdInputs : SetActive(id)
    \/ \E name \in NameInputs : Create(name)
    \/ \E id \in IdInputs : Delete(id)
    \/ \E id \in IdInputs, name \in RenameInputs : Rename(id, name)
    \/ LoadActivity
    \/ SaveActivity(Activity1)

Spec == Init /\ [][Next]_vars

\* The profile-scoped store under profile switches, as time passes
NextStore ==
    \/ Tick
    \/ Restart
    \/ \E id \in StoreIds : SetActive(id)
    \/ \E name \in StoreNames : Create(name)
    \/ LoadActivity
    \/ \E a \in ActivityInputs : SaveActivity(a)
    \/ \E id \in StoreIds : LoadJson(id)
    \/ \E id \in StoreIds, a \in ActivityInputs : SaveJson(id, a)

SpecStore == Init /\ [][NextStore]_vars

-----------------------------------------------------------------------------
(* Properties of the profile registry, checked under Spec *)

\* the id get_active_profile_id() returns in this state
ActiveId == get_active_profile_id(State).ret

Registered == Ids(list_profiles(State))

CountId(profiles, id) == Cardinality({i \in 1..Len(profiles) : profiles[i].id = id})

\* C3: the registry always holds exactly one profile with id "default", and
\* delete_profile("default") returns (False, "Cannot delete the default
\* profile.") and changes neither the registry nor any directory, whichever
\* profile is active.
C3_DefaultProfileProtected ==
    /\ CountId(list_profiles(State), DEFAULT) = 1
    /\ LET r == delete_profile(State, DEFAULT)
       IN /\ r.ret = Result(FALSE, "Cannot delete the default profile.")
          /\ r.st.reg = regFile
          /\ r.st.files = files

\* default is registered beside a full registry, is not the active profile,
\* has a directory with a document, and its deletion is refused
C3_Witness ==
    /\ Len(list_profiles(State)) = MAX_PROFILES
    /\ ActiveId # DEFAULT
    /\ DEFAULT \in DOMAIN files
    /\ TRACKER_FILENAME \in DOMAIN files[DEFAULT]
    /\ ~delete_profile(State, DEFAULT).ret.ok

\* C4: the registry document's active_profile names a profile of its profiles
\* list, and get_active_profile_id() returns the id of a listed profile.
C4_ActiveProfileValid ==
    /\ RegistryActive \in Registered
    /\ LET r == get_active_profile_id(State)
       IN r.ret \in Ids(list_profiles(r.st))

\* a new process (nothing cached) finds a non-default profile active in a
\* stored registry from which some profile is absent
C4_Witness ==
    /\ cache = None
    /\ regFile.kind = "json"
    /\ RegistryActive = Slug_b
    /\ Slug_a \notin Registered
    /\ Len(list_profiles(State)) = 2

\* C8 as stated: deleting the active profile returns (False, message) and
\* leaves the registry, the cached active id and all directories unchanged.
C8_Original ==
    \A id \in IdInputs :
        id = ActiveId =>
            LET r == delete_profile(State, id)
            IN /\ ~r.ret.ok
               /\ r.st.reg = regFile
               /\ r.st.files = files
               /\ r.st.cache = cache

\* C8 amended: deleting the active profile returns (False, message) and leaves
\* the registry and all directories unchanged; the cached active id is
\* unchanged when it was set or the id is "default", and an unset cache
\* becomes the id (the guard's own get_active_profile_id() call fills it).
C8_DeleteActiveRefused ==
    \A id \in IdInputs :
        id = ActiveId =>
            LET r == delete_profile(State, id)
            IN /\ ~r.ret.ok
               /\ r.st.reg = regFile
               /\ r.st.files = files
               /\ (cache # None \/ id = DEFAULT) => r.st.cache = cache
               /\ (cache = None /\ id # DEFAULT) => r.st.cache = id

\* a new process in which the non-default profile "a" is active and has a
\* document; its deletion is refused
C8_Witness ==
    /\ cache = None
    /\ ActiveId = Slug_a
    /\ Slug_a \in DOMAIN files
    /\ TRACKER_FILENAME \in DOMAIN files[Slug_a]
    /\ ~delete_profile(State, Slug_a).ret.ok

\* C9: deleting a registered profile that is neither "default" nor active
\* returns (True, message); afterwards the id is not listed, its directory is
\* gone, and every other registry entry, directory and document is as before.
C9_DeleteRemovesProfile ==
    \A id \in IdInputs :
        (id \in Registered /\ id # DEFAULT /\ id # ActiveId) =>
            LET r == delete_profile(State, id)
            IN /\ r.ret.ok
               /\ id \notin Ids(list_profiles(r.st))
               /\ id \notin DOMAIN r.st.files
               /\ list_profiles(r.st) =
                      SelectSeq(list_profiles(State), LAMBDA p : p.id # id)
               /\ DOMAIN r.st.files = DOMAIN files \ {id}
               /\ \A d \in DOMAIN files \ {id} : r.st.files[d] = files[d]

\* "a" is registered, inactive, and holds a document, as does another profile
C9_Witness ==
    /\ Slug_a \in Registered
    /\ ActiveId = Slug_b
    /\ Slug_a \in DOMAIN files
    /\ TRACKER_FILENAME \in DOMAIN files[Slug_a]
    /\ Slug_b \in DOMAIN files
    /\ TRACKER_FILENAME \in DOMAIN files[Slug_b]
    /\ delete_profile(State, Slug_a).ret.ok

\* the cases in which create_profile must refuse
CreateMustFail(name) ==
    \/ Len(name) < MIN_PROFILE_NAME_LENGTH
    \/ Len(name) > MAX_PROFILE_NAME_LENGTH
    \/ Len(list_profiles(State)) >= MAX_PROFILES
    \/ sanitize_profile_name(name) = <<>>
    \/ sanitize_profile_name(name) \in RESERVED_NAMES
    \/ sanitize_profile_name(name) \in Registered

\* C10: create_profile returns (False, message) and leaves the registry and
\* the set of profile directories unchanged when the name is too short or too
\* long, the registry is full, the slug is empty, reserved or already
\* registered; so the registry never holds more than MAX_PROFILES profiles.
C10_CreateRejects ==
    /\ \A name \in NameInputs :
          CreateMustFail(name) =>
              LET r == create_profile(State, name)
              IN /\ ~r.ret.ok
                 /\ r.st.reg = regFile
                 /\ DOMAIN r.st.files = DOMAIN files
    /\ Len(list_profiles(State)) <= MAX_PROFILES

\* the registry is full and a well-formed, unused name is refused for it,
\* in a state where a duplicate slug is refused too
C10_Witness ==
    /\ Len(list_profiles(State)) = MAX_PROFILES
    /\ Slug_c \notin Registered
    /\ create_profile(State, <<"c">>).ret =
           Result(FALSE, "Maximum profiles ({MAX_PROFILES}) reached. Delete unused profiles first.")
    /\ ~create_profile(State, <<"A", " ">>).ret.ok

-----------------------------------------------------------------------------
(* Properties of the profile-scoped store, checked under SpecStore *)

\* the activity document stored for a profile, {} when there is none
StoredActivity(fs, id) ==
    IF id \in DOMAIN fs /\ TRACKER_FILENAME \in DOMAIN fs[id]
    THEN fs[id][TRACKER_FILENAME]
    ELSE EmptyDict

\* the document last saved for a profile, {} when none was
LastSaved(id) == IF id \in DOMAIN saved THEN saved[id] ELSE EmptyDict

\* every directory but that of profile id is as it was
OthersUntouched(fs, id) ==
    /\ DOMAIN fs \ {id} = DOMAIN files \ {id}
    /\ \A d \in DOMAIN files \ {id} : fs[d] = files[d]

\* C2: a load made while profile B is active (or naming B) returns what was
\* last saved while B was active (or naming B), never another profile's
\* document, also after switching away and back; a save made while A is
\* active (or naming A) leaves the documents of every other profile unchanged.
C2_ProfileIsolation ==
    /\ load_daily_activity(State).ret = LastSaved(RegistryActive)
    /\ \A id \in StoreIds :
          load_profile_json(State, TRACKER_FILENAME, EmptyDict, id).ret = LastSaved(id)
    /\ \A a \in ActivityInputs :
          /\ OthersUntouched(save_daily_activity(State, a).files, RegistryActive)
          /\ \A id \in StoreIds :
                OthersUntouched(save_profile_json(State, TRACKER_FILENAME, a, id).files, id)

\* "b" is active; "a" and "b" hold different documents and default none;
\* the load shows b's document
C2_Witness ==
    /\ RegistryActive = Slug_b
    /\ cache = Slug_b
    /\ LastSaved(Slug_a) = Activity1
    /\ LastSaved(Slug_b) = Activity2
    /\ LastSaved(DEFAULT) = EmptyDict
    /\ load_daily_activity(State).ret = Activity2

\* C7: when set_active_profile(id) returns True the registry's active_profile
\* and the cached id both equal id, and a store call that omits profile_id
\* reads or writes the directory of the profile active at that moment: right
\* after the switch that is id's directory.
C7_SwitchTakesEffect ==
    /\ load_daily_activity(State).ret = StoredActivity(files, RegistryActive)
    /\ \A a \in ActivityInputs :
          LET fs == save_daily_activity(State, a).files
          IN fs[RegistryActive][TRACKER_FILENAME] = a /\ OthersUntouched(fs, RegistryActive)
    /\ \A id \in StoreIds :
          LET r == set_active_profile(State, id)
          IN r.ret =>
                /\ r.st.reg.kind = "json"
                /\ r.st.reg.data.active_profile = id
                /\ r.st.cache = id
                /\ load_daily_activity(r.st).ret = StoredActivity(files, id)
                /\ \A a \in ActivityInputs :
                      LET fs == save_daily_activity(r.st, a).files
                      IN fs[id][TRACKER_FILENAME] = a /\ OthersUntouched(fs, id)

\* "b" is active and cached, "a" holds another document than "b", and the
\* switch to "a" succeeds
C7_Witness ==
    /\ cache = Slug_b
    /\ StoredActivity(files, Slug_a) = Activity1
    /\ StoredActivity(files, Slug_b) = Activity2
    /\ set_active_profile(State, Slug_a).ret
    /\ load_daily_activity(set_active_profile(State, Slug_a).st).ret = Activity1

-----------------------------------------------------------------------------
(* The goals module on the active profile's goals_v2.json *)

\* no goals file yet, or one whose entry for 2025-05 an earlier version wrote
InitGoals ==
    /\ regFile = NoFile
    /\ cache = None
    /\ clock = 0
    /\ saved = <<>>
    /\ input = None
    /\ output = None
    /\ main_window = NoWindow
    /\ \/ files = <<>>
       \/ \E e \in InitEntries :
             files = (DEFAULT :> (GOALS_FILENAME :> JDict(M05 :> e)))

LoadGoals(month) ==
    /\ Apply(load_goals_for_month(State, month).st)
    /\ UNCHANGED saved

SaveGoals(goals, source) ==
    /\ Apply(save_goals_for_month(State, goals, source))
    /\ UNCHANGED saved

AutoArchive(current_month_id) ==
    /\ Apply(auto_archive_past_goals(State, current_month_id))
    /\ UNCHANGED saved

NextGoals ==
    \/ \E m \in Months : LoadGoals(m)
    \/ \E g \in SavedGoals : SaveGoals(g, IF g = BlankGoals(g.month) THEN NoSource ELSE GOALS_VIEW)
    \/ \E c \in Months : AutoArchive(c)

SpecGoals == InitGoals /\ [][NextGoals]_vars

-----------------------------------------------------------------------------
(* Properties of the goals module, checked under SpecGoals *)

\* the all-months goals document of the default profile, {} when there is none
StoredGoals(fs) ==
    IF DEFAULT \in DOMAIN fs /\ GOALS_FILENAME \in DOMAIN fs[DEFAULT]
    THEN fs[DEFAULT][GOALS_FILENAME].d
    ELSE <<>>

BlankText(x) == Strip(x.s) = <<>>

\* a MonthlyGoals object with no goal text, no completed flag, no reflection,
\* no subtask text and no notes
EffectivelyBlank(g) ==
    /\ \A i \in 1..Len(g.goals.l) : BlankText(g.goals.l[i])
    /\ \A i \in 1..Len(g.completed.l) : g.completed.l[i] = F
    /\ \A i \in 1..Len(g.reflections.l) : BlankText(g.reflections.l[i])
    /\ \A i \in 1..Len(g.subtasks.l) :
          \A k \in 1..Len(g.subtasks.l[i].l) : BlankText(g.subtasks.l[i].l[k])
    /\ BlankText(g.notes)

\* the entry a save of g writes: the object's fields, stamped with the source
Stamped(g, source) ==
    IF source = <<>> THEN to_dict(g)
    ELSE JDict(("last_saved_by" :> JStr(source)) @@ to_dict(g).d)

\* C1: for a month that has a stored entry, save_goals_for_month with an
\* effectively blank object leaves every file as it is, and with any other
\* object makes the month's entry the saved object (with the source stamp
\* when a source is given) and leaves the other months' entries alone.
C1_BlankOverwriteGuard ==
    \A g \in GoalsInputs, source \in Sources :
        LET before == StoredGoals(files)
            s2 == save_goals_for_month(State, g, source)
            after == StoredGoals(s2.files)
        IN g.month \in DOMAIN before =>
              IF EffectivelyBlank(g)
              THEN s2.files = files
              ELSE /\ after[g.month] = Stamped(g, source)
                   /\ DOMAIN after = DOMAIN before
                   /\ \A m \in DOMAIN before \ {g.month} : after[m] = before[m]

\* entries for 2025-05 and 2025-06 are stored, the first with goal text: the
\* blank save keeps the document and the non-blank save replaces the entry
C1_Witness ==
    /\ {M05, M06} \subseteq DOMAIN StoredGoals(files)
    /\ ~BlankText(StoredGoals(files)[M05].d["goals"].l[1])
    /\ save_goals_for_month(State, BlankGoals(M05), NoSource).files = files
    /\ StoredGoals(save_goals_for_month(State, CompletedOnly(M05), GOALS_VIEW).files)[M05]
          = Stamped(CompletedOnly(M05), GOALS_VIEW)
    /\ StoredGoals(files)[M05] # Stamped(CompletedOnly(M05), GOALS_VIEW)

\* C5: whatever entry is stored for a month (keys missing or null, arrays
\* shorter or longer than three, subtasks and subtasks_done of different
\* lengths), load_goals_for_month returns a record whose eight arrays have
\* exactly three entries and whose subtasks_done[i] is as long as subtasks[i].
C5_GoalsShapeNormalized ==
    \A month \in Months :
        LET g == load_goals_for_month(State, month).ret
        IN /\ ~IsRaised(g)
           /\ \A f \in ArrayFields : g[f].t = "list" /\ Len(g[f].l) = 3
           /\ \A i \in 1..3 :
                 /\ g.subtasks.l[i].t = "list"
                 /\ g.subtasks_done.l[i].t = "list"
                 /\ Len(g.subtasks_done.l[i].l) = Len(g.subtasks.l[i].l)

\* the length of field f of a stored entry, -1 when the field is no list
StoredLen(entry, f) ==
    IF f \in DOMAIN entry.d /\ entry.d[f].t = "list" THEN Len(entry.d[f].l) ELSE -1

\* a load has run (it resolved the active profile) on a stored entry that has
\* an array of another length than three, or a subtasks slot whose length
\* differs from its subtasks_done slot, and returned the normal shape
C5_Witness ==
    /\ cache = DEFAULT
    /\ M05 \in DOMAIN StoredGoals(files)
    /\ LET entry == StoredGoals(files)[M05]
           g == load_goals_for_month(State, M05).ret
       IN /\ \/ \E f \in ArrayFields : StoredLen(entry, f) # 3
             \/ Len(entry.d["subtasks"].l[1].l) # Len(entry.d["subtasks_done"].l[1].l)
          /\ ~IsRaised(g)
          /\ \A f \in ArrayFields : Len(g[f].l) = 3
          /\ \A i \in 1..3 : Len(g.subtasks_done.l[i].l) = Len(g.subtasks.l[i].l)

\* the stored value of archived is set and true
Archived(entry) == "archived" \in DOMAIN entry.d /\ entry.d["archived"] = T

\* the entry but for its archived field
WithoutArchived(entry) == [f \in DOMAIN entry.d \ {"archived"} |-> entry.d[f]]

\* a <= b on month keys
NotAfter(a, b) == a = b \/ StrLess(a, b)

\* C6: auto_archive_past_goals(c) keeps the stored months, makes archived
\* true on every month before c, leaves the entries of c and of later months
\* as they are, changes no field but archived, and a further call with c or
\* an earlier month, before or after it, changes nothing more.
C6_ArchivePastMonths ==
    \A c \in Months :
        LET before == StoredGoals(files)
            s2 == auto_archive_past_goals(State, c)
            after == StoredGoals(s2.files)
        IN /\ DOMAIN after = DOMAIN before
           /\ \A m \in DOMAIN before :
                 /\ StrLess(m, c) => Archived(after[m])
                 /\ ~StrLess(m, c) => after[m] = before[m]
                 /\ WithoutArchived(after[m]) = WithoutArchived(before[m])
           /\ \A c2 \in Months :
                 NotAfter(c2, c) =>
                    /\ auto_archive_past_goals(s2, c2) = s2
                    /\ auto_archive_past_goals(auto_archive_past_goals(State, c2), c) = s2

\* 2025-05, 2025-06 and 2025-07 are stored and a call with 2025-06 has run:
\* 2025-05 is archived and the two other months are not
C6_Witness ==
    /\ DOMAIN StoredGoals(files) = Months
    /\ Archived(StoredGoals(files)[M05])
    /\ ~Archived(StoredGoals(files)[M06])
    /\ ~Archived(StoredGoals(files)[M07])
    /\ auto_archive_past_goals(State, M06) = State

-----------------------------------------------------------------------------
(* Further properties of the profile registry, checked under Spec *)

\* C11: no two entries of the registry share an id, and create_profile with a
\* display name whose slug is already registered fails and changes nothing;
\* when the name has a valid length, the limit is not reached and the slug is
\* not reserved, the failure is the "already exists" one.
C11_ProfileIdsUnique ==
    LET profiles == list_profiles(State)
    IN /\ \A i, j \in 1..Len(profiles) : profiles[i].id = profiles[j].id => i = j
       /\ \A name \in NameInputs :
             LET r == create_profile(State, name)
                 slug == sanitize_profile_name(name)
             IN slug \in Ids(profiles) =>
                   /\ ~r.ret.ok
                   /\ r.st = State
                   /\ ( /\ Len(name) >= MIN_PROFILE_NAME_LENGTH
                        /\ Len(name) <= MAX_PROFILE_NAME_LENGTH
                        /\ Len(profiles) < MAX_PROFILES
                        /\ slug \notin RESERVED_NAMES )
                      => r.ret.msg = "Profile '{display_name}' already exists."

\* "a" was created under the display name "a", and creating "A " (the same
\* slug, another name) is rejected as a duplicate
C11_Witness ==
    LET profiles == list_profiles(State)
    IN /\ \E i \in 1..Len(profiles) :
             profiles[i].id = Slug_a /\ profiles[i].display_name = <<"a">>
       /\ sanitize_profile_name(<<"A", " ">>) = Slug_a
       /\ Len(profiles) < MAX_PROFILES
       /\ create_profile(State, <<"A", " ">>).ret
             = Result(FALSE, "Profile '{display_name}' already exists.")

-----------------------------------------------------------------------------
(* sanitize_profile_name on its own *)

SanitizeAlphabet == {"a", "A", " ", "_", ".", "/", "U+0130"}

Words(n) == UNION { [1..k -> SanitizeAlphabet] : k \in 0..n }

\* two characters short of the length at which the name is cut
LongPrefix == [i \in 1..(MAX_PROFILE_NAME_LENGTH - 2) |-> "x"]

SanitizeInputs == Words(MaxNameLen) \cup { LongPrefix \o w : w \in Words(MaxNameLen) }

InitSanitize ==
    /\ regFile = NoFile
    /\ files = <<>>
    /\ cache = None
    /\ clock = 0
    /\ saved = <<>>
    /\ input \in SanitizeInputs
    /\ output = None
    /\ main_window = NoWindow

Sanitize ==
    /\ output = None
    /\ output' = sanitize_profile_name(input)
    /\ UNCHANGED <<regFile, files, cache, clock, saved, input, main_window>>

SpecSanitize == InitSanitize /\ [][Sanitize]_vars

\* the result is lowercase, has none of the invalid characters and no space,
\* no ".." and no "__", and no underscore at either end
SlugShape(slug) ==
    /\ Lower(slug) = slug
    /\ \A i \in 1..Len(slug) : slug[i] \notin INVALID_CHARS \cup {" "}
    /\ ~Contains2(slug, <<".", ".">>)
    /\ ~Contains2(slug, <<"_", "_">>)
    /\ slug # <<>> => slug[1] # "_" /\ slug[Len(slug)] # "_"

\* C12: the result of sanitize_profile_name is a function of its argument, is
\* lowercase, has at most 30 characters, none of / \ : * ? " < > |, no space,
\* no ".." and no "__", and neither starts nor ends with an underscore.
C12_SanitizedSlug ==
    output # None =>
        /\ output = sanitize_profile_name(input)
        /\ SlugShape(output)
        /\ Len(output) <= MAX_PROFILE_NAME_LENGTH

\* C12 without the bound on the length: the part of the claim that holds
C12_SanitizedSlugShape ==
    output # None => output = sanitize_profile_name(input) /\ SlugShape(output)

-----------------------------------------------------------------------------
(* Loading and saving back the documents found on disk *)

InitDocs ==
    /\ regFile = NoFile
    /\ cache = None
    /\ clock = 0
    /\ saved = <<>>
    /\ input = None
    /\ output = None
    /\ main_window = NoWindow
    /\ \/ files = <<>>
       \/ \E doc \in StoredDocs : files = (DEFAULT :> (doc[1] :> doc[2]))

\* the goals view: load the month, save what was loaded (an exception of the
\* load ends the handler before the save)
ResaveGoals(month) ==
    /\ \E r \in { load_goals_for_month(State, month) } :
          Apply(IF IsRaised(r.ret) THEN r.st
                ELSE save_goals_for_month(r.st, r.ret, GOALS_VIEW))
    /\ UNCHANGED saved

ResavePlan ==
    /\ \E r \in { load_daily_plan(State) } : Apply(save_daily_plan(r.st, r.ret))
    /\ UNCHANGED saved

ResaveActivity ==
    /\ \E r \in { load_daily_activity(State) } : Apply(save_daily_activity(r.st, r.ret))
    /\ UNCHANGED saved

NextDocs ==
    \/ \E month \in Months : LoadGoals(month)
    \/ \E month \in Months : ResaveGoals(month)
    \/ ResavePlan
    \/ ResaveActivity

SpecDocs == InitDocs /\ [][NextDocs]_vars

\* load, save the loaded value, load again, and once more: the value of every
\* later load is the value of the first, and the second save leaves the
\* document as the first save left it
StableActivity(s) ==
    LET r1 == load_daily_activity(s)
        s2 == save_daily_activity(r1.st, r1.ret)
        r2 == load_daily_activity(s2)
        s3 == save_daily_activity(r2.st, r2.ret)
    IN  /\ r2.ret = r1.ret
        /\ load_daily_activity(s3).ret = r1.ret
        /\ s3.files = s2.files

StablePlan(s) ==
    LET r1 == load_daily_plan(s)
        s2 == save_daily_plan(r1.st, r1.ret)
        r2 == load_daily_plan(s2)
        s3 == save_daily_plan(r2.st, r2.ret)
    IN  /\ r2.ret = r1.ret
        /\ load_daily_plan(s3).ret = r1.ret
        /\ s3.files = s2.files

\* r1 is the first load of the month, which returned a value
StableGoals(r1, month, source) ==
    LET s2 == save_goals_for_month(r1.st, r1.ret, source)
        r2 == load_goals_for_month(s2, month)
        s3 == save_goals_for_month(r2.st, r2.ret, source)
        r3 == load_goals_for_month(s3, month)
    IN  /\ ~IsRaised(r2.ret) /\ r2.ret = r1.ret
        /\ ~IsRaised(r3.ret) /\ r3.ret = r1.ret
        /\ s3.files = s2.files

-----------------------------------------------------------------------------
(* C13: round-trip stability: for the daily activity, the daily plan and the
   monthly goals, and for every stored document, loading, saving the loaded
   value unchanged and loading again returns the value of the first load,
   and so does every further load and save *)
C13_RoundTrip ==
    /\ StableActivity(State)
    /\ StablePlan(State)
    /\ \A month \in Months : \A source \in Sources :
          \E r1 \in { load_goals_for_month(State, month) } :
             ~IsRaised(r1.ret) /\ StableGoals(r1, month, source)

\* the same on the documents that load_goals_for_month loads at all
C13_RoundTripWhereLoaded ==
    /\ StableActivity(State)
    /\ StablePlan(State)
    /\ \A month \in Months : \A source \in Sources :
          \E r1 \in { load_goals_for_month(State, month) } :
             ~IsRaised(r1.ret) => StableGoals(r1, month, source)

\* goals_v2.json of the default profile is missing or holds no valid JSON
GoalsFileUnusable ==
    \/ DEFAULT \notin DOMAIN files
    \/ GOALS_FILENAME \notin DOMAIN files[DEFAULT]
    \/ files[DEFAULT][GOALS_FILENAME].t = "unparsable"

-----------------------------------------------------------------------------
(* C15: load_goals_for_month never raises: whatever goals_v2.json holds, a
   missing or unparsable file, or an entry whose fields have the wrong type
   (a number, a string or an object where a list is expected, a subtask slot
   that is no list), the load returns a monthly goals object, and for a
   missing or unparsable file that object is the blank default of the month *)
C15_LoadNeverRaises ==
    \A month \in Months :
        LET r == load_goals_for_month(State, month)
        IN  /\ ~IsRaised(r.ret)
            /\ GoalsFileUnusable => r.ret = BlankGoals(month)

-----------------------------------------------------------------------------
(* compute_balance_index on its own *)

MaxSkill == 5

\* the four skills with integer values, values below the 1..5 of the input
\* widget included, and snapshots that lack some of the keys
SnapshotInputs ==
    [{"reading", "listening", "speaking", "writing"} -> (-1)..MaxSkill]
       \cup [{"reading", "month"} -> 0..MaxSkill]
       \cup { <<>> }

Pending == <<"pending">>

InitRadar ==
    /\ regFile = NoFile
    /\ files = <<>>
    /\ cache = None
    /\ clock = 0
    /\ saved = <<>>
    /\ input \in SnapshotInputs
    /\ output = Pending
    /\ main_window = NoWindow

Balance ==
    /\ output = Pending
    /\ output' = <<"returned", compute_balance_index(input)>>
    /\ UNCHANGED <<regFile, files, cache, clock, saved, input, main_window>>

SpecRadar == InitRadar /\ [][Balance]_vars

\* 16 times the mean absolute deviation of the four values from their mean
Deviation16(snapshot) ==
    LET v == [i \in 1..4 |-> SkillValue(snapshot, Skills[i])]
        sum == v[1] + v[2] + v[3] + v[4]
    IN Abs(4 * v[1] - sum) + Abs(4 * v[2] - sum) + Abs(4 * v[3] - sum) + Abs(4 * v[4] - sum)

AllZero(snapshot) == \A i \in 1..4 : SkillValue(snapshot, Skills[i]) = 0

\* C14: compute_balance_index returns null exactly when all four skill values
\* are zero; otherwise it returns an integer of 0..100 that is nearest to
\* 100 * (1 - min(d, 2) / 2), d the mean absolute deviation of the four values
\* from their mean; four equal nonzero values give 100, and 5, 1, 1, 1 gives 25.
C14_BalanceIndex ==
    Len(output) = 2 =>
        LET index == output[2]
            d16 == Deviation16(input)
            \* 16 * 100 * (1 - min(d, 2) / 2) = 1600 - 50 * min(16 d, 32)
            exact16 == 1600 - 50 * (IF d16 < 32 THEN d16 ELSE 32)
        IN  /\ index.t = "null" <=> AllZero(input)
            /\ ~AllZero(input) =>
                  /\ index.t = "num"
                  /\ index.n \in 0..100
                  /\ Abs(16 * index.n - exact16) <= 8
                  /\ (d16 = 0 => index.n = 100)
                  /\ (/\ DOMAIN input = {"reading", "listening", "speaking", "writing"}
                      /\ input["reading"] = 5 /\ input["listening"] = 1
                      /\ input["speaking"] = 1 /\ input["writing"] = 1
                      => index.n = 25)

\* the index of 5, 1, 1, 1 has been computed and is 25
C14_Witness ==
    /\ Len(output) = 2
    /\ DOMAIN input = {"reading", "listening", "speaking", "writing"}
    /\ input["listening"] = 1 /\ input["speaking"] = 1 /\ input["writing"] = 1
    /\ input["reading"] = 5
    /\ output[2] = JNum(25)

-----------------------------------------------------------------------------
(* The two surfaces on the month's goals: the dashboard's mini-cards
   (gui/dashboard_view.py) and the goals view (gui/goals_view.py), each with
   its own loaded MonthlyGoals object and its widgets. A widget holds a JSON
   string or boolean. An operator on a surface takes and returns the pair
   w = [st, view] of the State and the surface's fields; v, where it appears,
   is w bound once. *)

DASHBOARD_VIEW == <<"d", "a", "s", "h", "b", "o", "a", "r", "d", "_", "v", "i", "e", "w">>

\* the month both surfaces show: get_current_month_id()
CurrentMonth == M05

\* texts[:3] / checks[:3] of the widgets into the object, then the save
_update_dashboard_goals_from_widgets(w) ==
    LET Updated(v) ==
          LET goals == [v.view._dashboard_goals EXCEPT
                          !.goals = JList(Prefix(v.view._goal_edits_dash, 3)),
                          !.completed = JList(Prefix(v.view._goal_checks_dash, 3))]
          IN CHOOSE out \in
               { [st |-> save_goals_for_month(v.st, g, DASHBOARD_VIEW),
                  view |-> [v.view EXCEPT !._dashboard_goals = g]] :
                 g \in { goals } } : TRUE
    IN CHOOSE out \in { Updated(v) : v \in { w } } : TRUE

\* check.toggled -> _on_dashboard_goal_checked: emitted by setChecked when
\* the state of the checkbox changes
_on_dashboard_goal_checked(w, index, checked) ==
    _update_dashboard_goals_from_widgets(
        [w EXCEPT !.view._goal_checks_dash[index] = checked])

\* the loop of refresh_goals_from_storage from card idx on: setText (the
\* dashboard listens to editingFinished only), then setChecked
RECURSIVE RefreshCards(_, _)
RefreshCards(w, idx) ==
    IF idx > 3 THEN w
    ELSE CHOOSE out \in
      { RefreshCards(
          IF v.view._goal_checks_dash[idx] # v.view._dashboard_goals.completed.l[idx]
          THEN _on_dashboard_goal_checked(
                  [v EXCEPT !.view._goal_edits_dash[idx] = v.view._dashboard_goals.goals.l[idx],
                            !.view._goal_checks_dash[idx] = v.view._dashboard_goals.completed.l[idx]],
                  idx, v.view._dashboard_goals.completed.l[idx])
          ELSE [v EXCEPT !.view._goal_edits_dash[idx] = v.view._dashboard_goals.goals.l[idx]],
          idx + 1) : v \in { w } } : TRUE

refresh_goals_from_storage(w) ==
    CHOOSE out \in
      { RefreshCards([st |-> r.st, view |-> [w.view EXCEPT !._dashboard_goals = r.ret]], 1) :
        r \in { load_goals_for_month(w.st, CurrentMonth) } } : TRUE

\* x.strip() is empty
BlankWidget(x) == Strip(PyStr(x)) = <<>>

\* the rows of a subtasks layout read back: texts and done flags
RowTexts(rows) == [k \in 1..Len(rows) |-> rows[k].text]
RowDone(rows) == [k \in 1..Len(rows) |-> rows[k].done]

\* GoalsView._on_save: the widgets into _current_goals, with the guardrails
\* that keep the object's text or reflection where the widget is empty and
\* the object's subtasks where the layout has no row, then save_month_goals
_on_save(w) ==
    LET Saved(v) ==
          LET goals == v.view._current_goals
              texts == [i \in 1..3 |->
                          IF BlankWidget(v.view.goal_edits[i]) /\ ~BlankWidget(goals.goals.l[i])
                          THEN goals.goals.l[i] ELSE v.view.goal_edits[i]]
              checks == v.view.goal_checks
              reflections ==
                  [i \in 1..3 |->
                      IF BlankWidget(v.view.reflection_edits[i])
                            /\ ~BlankWidget(goals.reflections.l[i])
                      THEN goals.reflections.l[i] ELSE v.view.reflection_edits[i]]
              created_at ==
                  [i \in 1..3 |->
                      IF BlankWidget(goals.goals.l[i]) /\ ~BlankWidget(texts[i])
                            /\ Falsy(goals.created_at.l[i])
                      THEN Stamp ELSE goals.created_at.l[i]]
              completed_at ==
                  [i \in 1..3 |->
                      IF Falsy(goals.completed.l[i]) /\ ~Falsy(checks[i])
                            /\ Falsy(goals.completed_at.l[i])
                      THEN Stamp ELSE goals.completed_at.l[i]]
              existing_subtasks == PadTo(goals.subtasks.l, JList(<<>>), 3)
              existing_done == PadTo(goals.subtasks_done.l, JList(<<>>), 3)
              new_subtasks ==
                  [i \in 1..3 |->
                      IF v.view.subtasks_layouts[i] = <<>> THEN existing_subtasks[i]
                      ELSE JList(RowTexts(v.view.subtasks_layouts[i]))]
              new_subtasks_done ==
                  [i \in 1..3 |->
                      IF v.view.subtasks_layouts[i] = <<>>
                      THEN JList(Prefix(PadTo(existing_done[i].l, F, Len(existing_subtasks[i].l)),
                                        Len(existing_subtasks[i].l)))
                      ELSE JList(RowDone(v.view.subtasks_layouts[i]))]
              saved_goals ==
                  [goals EXCEPT !.goals = JList(texts), !.completed = JList(checks),
                                !.categories = JList(v.view.category_combos),
                                !.reflections = JList(reflections),
                                !.created_at = JList(created_at),
                                !.completed_at = JList(completed_at),
                                !.subtasks = JList(new_subtasks),
                                !.subtasks_done = JList(new_subtasks_done)]
          IN CHOOSE out \in
               { [st |-> save_goals_for_month(v.st, g, GOALS_VIEW),
                  view |-> [v.view EXCEPT !._current_goals = g]] :
                 g \in { saved_goals } } : TRUE
    IN CHOOSE out \in { Saved(v) : v \in { w } } : TRUE

\* _auto_save: no save while an archived month is shown
_auto_save(w) ==
    CHOOSE out \in
      { IF ~Falsy(v.view._current_goals.archived) THEN v ELSE _on_save(v) : v \in { w } } : TRUE

\* a setter of _load_month on widget i: the change signal (textChanged,
\* toggled, currentIndexChanged) is emitted when the value changes, and is
\* connected to _auto_save
SetWidget(w, widget, i, value) ==
    CHOOSE out \in
      { IF v.view[widget][i] # value
        THEN _auto_save([v EXCEPT !.view[widget][i] = value])
        ELSE v : v \in { w } } : TRUE

\* the rows _load_month builds for the subtasks of goal i (their signals are
\* connected after the rows are filled)
SubtaskRows(goals, i) ==
    [k \in 1..Len(goals.subtasks.l[i].l) |->
        [text |-> JStr(PyStr(goals.subtasks.l[i].l[k])),
         done |-> IF k <= Len(goals.subtasks_done.l[i].l)
                  THEN goals.subtasks_done.l[i].l[k] ELSE F]]

\* the loop of _load_month from card i on: text, done, category and
\* reflection are read from the object first, the subtasks after the setters
RECURSIVE LoadCards(_, _)
LoadCards(w, i) ==
    IF i > 3 THEN w
    ELSE CHOOSE out \in
      { LoadCards([set EXCEPT !.view.subtasks_layouts[i] =
                                  SubtaskRows(set.view._current_goals, i)], i + 1) :
        set \in { SetWidget(
                    SetWidget(
                      SetWidget(
                        SetWidget(v, "goal_edits", i, v.view._current_goals.goals.l[i]),
                        "goal_checks", i, v.view._current_goals.completed.l[i]),
                      "category_combos", i, v.view._current_goals.categories.l[i]),
                    "reflection_edits", i, v.view._current_goals.reflections.l[i]) :
                  v \in { w } } } : TRUE

_load_month(w) ==
    CHOOSE out \in
      { LoadCards([st |-> r.st, view |-> [w.view EXCEPT !._current_goals = r.ret]], 1) :
        r \in { load_goals_for_month(w.st, CurrentMonth) } } : TRUE

GOALS_VIEW_CLEAR == GOALS_VIEW \o <<"_", "c", "l", "e", "a", "r">>

\* slot index of the JSON list q set to value, q padded to three first
ClearSlot(q, index, value) == JList([PadTo(q.l, value, 3) EXCEPT ![index] = value])

\* GoalsView._on_delete_goal(index) with the question answered Yes: the slot
\* of the object cleared, then the widgets (clear(), setChecked and
\* setCurrentIndex emit their change signal when the value changes), then the
\* rows of the layout taken out, then the save of the object as it is by then
_on_delete_goal(w, index) ==
    LET goals == w.view._current_goals
        cleared == [goals EXCEPT
                      !.goals = ClearSlot(@, index, E),
                      !.completed = ClearSlot(@, index, F),
                      !.categories = ClearSlot(@, index, GENERAL),
                      !.reflections = ClearSlot(@, index, E),
                      !.subtasks = ClearSlot(@, index, JList(<<>>)),
                      !.subtasks_done = ClearSlot(@, index, JList(<<>>)),
                      !.created_at = ClearSlot(@, index, E),
                      !.completed_at = ClearSlot(@, index, E)]
        Widgets(v) ==
            SetWidget(
              SetWidget(
                SetWidget(
                  SetWidget(v, "goal_edits", index, E),
                  "goal_checks", index, F),
                "category_combos", index, GENERAL),
              "reflection_edits", index, E)
        Finish(v) ==
            [st |-> save_goals_for_month(v.st, v.view._current_goals, GOALS_VIEW_CLEAR),
             view |-> [v.view EXCEPT !.subtasks_layouts[index] = <<>>]]
    IN IF ~Falsy(goals.archived) THEN w
       ELSE CHOOSE out \in
              { Finish(v) : v \in { Widgets([w EXCEPT !.view._current_goals = cleared]) } } : TRUE

-----------------------------------------------------------------------------
(* The window: one tab is shown at a time, the user works on the shown tab,
   and showing a tab reloads its surface (MainWindow._on_tab_changed) *)

MaxGestures == 3

\* what the user did last: kind of widget and goal slot (0: none)
Gesture(kind, slot) == [kind |-> kind, slot |-> slot]

\* the goal slots the user works on, and what they type
EditSlots == 1..2
GoalTexts == { E, Txt("a"), Txt("b") }
ReflectionTexts == { Txt("r") }
SubtaskTexts == { Txt("s") }

\* both views as constructed over an empty store
NewDashboardView ==
    [_dashboard_goals |-> BlankGoals(CurrentMonth),
     _goal_edits_dash |-> <<E, E, E>>,
     _goal_checks_dash |-> <<F, F, F>>]

NewGoalsView ==
    [_current_goals |-> BlankGoals(CurrentMonth),
     goal_edits |-> <<E, E, E>>,
     goal_checks |-> <<F, F, F>>,
     category_combos |-> <<GENERAL, GENERAL, GENERAL>>,
     reflection_edits |-> <<E, E, E>>,
     subtasks_layouts |-> << <<>>, <<>>, <<>> >>]

InitSurfaces ==
    /\ regFile = NoFile
    /\ files = <<>>
    /\ cache = None
    /\ clock = 0
    /\ saved = <<>>
    /\ input = Gesture("none", 0)
    /\ output = None
    /\ main_window = [tab |-> "dashboard", gestures |-> 0,
                      dashboard_view |-> NewDashboardView,
                      goals_view |-> NewGoalsView]

OnDashboard == [st |-> State, view |-> main_window.dashboard_view]
OnGoalsView == [st |-> State, view |-> main_window.goals_view]

\* the outcome w of a handler of surface `surface`, after gesture g
ApplySurface(w, surface, g) ==
    /\ regFile' = w.st.reg
    /\ files' = w.st.files
    /\ cache' = w.st.cache
    /\ clock' = w.st.clock
    /\ main_window' =
          [main_window EXCEPT
              ![surface] = w.view,
              !.tab = IF surface = "dashboard_view" THEN "dashboard" ELSE "goals",
              !.gestures = IF g.kind = "tab" THEN @ ELSE @ + 1]
    /\ input' = g
    /\ UNCHANGED <<saved, output>>

ShowDashboardTab ==
    /\ main_window.tab = "goals"
    /\ ApplySurface(refresh_goals_from_storage(OnDashboard), "dashboard_view", Gesture("tab", 0))

ShowGoalsTab ==
    /\ main_window.tab = "dashboard"
    /\ ApplySurface(_load_month(OnGoalsView), "goals_view", Gesture("tab", 0))

\* editingFinished of a mini-card: _on_dashboard_goal_edited
DashboardGoalEdited(i, text) ==
    /\ main_window.tab = "dashboard"
    /\ main_window.gestures < MaxGestures
    /\ ApplySurface(_update_dashboard_goals_from_widgets(
                       [OnDashboard EXCEPT !.view._goal_edits_dash[i] = text]),
                    "dashboard_view", Gesture("goal", i))

\* a click on the circle of a mini-card: c.toggle()
DashboardGoalClicked(i) ==
    /\ main_window.tab = "dashboard"
    /\ main_window.gestures < MaxGestures
    /\ ApplySurface(_on_dashboard_goal_checked(
                       OnDashboard, i,
                       JBool(Falsy(main_window.dashboard_view._goal_checks_dash[i]))),
                    "dashboard_view", Gesture("check", i))

\* _update_banner_and_readonly: card.setEnabled(not goals.archived); the
\* widgets and buttons of a card take no input while the card is disabled
CardsEnabled == Falsy(main_window.goals_view._current_goals.archived)

\* the user's change of a widget of the goals view: its signal runs _auto_save
GoalsWidgetChanged(widget, kind, i, value) ==
    /\ CardsEnabled
    /\ main_window.goals_view[widget][i] # value
    /\ ApplySurface(_auto_save([OnGoalsView EXCEPT !.view[widget][i] = value]),
                    "goals_view", Gesture(kind, i))

GoalsGoalEdited(i, text) ==
    /\ main_window.tab = "goals"
    /\ main_window.gestures < MaxGestures
    /\ GoalsWidgetChanged("goal_edits", "goal", i, text)

GoalsGoalChecked(i) ==
    /\ main_window.tab = "goals"
    /\ main_window.gestures < MaxGestures
    /\ GoalsWidgetChanged("goal_checks", "check", i,
                       JBool(Falsy(main_window.goals_view.goal_checks[i])))

GoalsReflectionEdited(i, text) ==
    /\ main_window.tab = "goals"
    /\ main_window.gestures < MaxGestures
    /\ GoalsWidgetChanged("reflection_edits", "reflection", i, text)

\* _on_add_subtask: a blank row at the end, then _auto_save
GoalsAddSubtask(i) ==
    /\ main_window.tab = "goals"
    /\ main_window.gestures < MaxGestures
    /\ CardsEnabled
    /\ ApplySurface(_auto_save([OnGoalsView EXCEPT !.view.subtasks_layouts[i] =
                                                      Append(@, [text |-> E, done |-> F])]),
                    "goals_view", Gesture("subtask", i))

\* typing into the last subtask row of goal i
GoalsSubtaskEdited(i, text) ==
    /\ main_window.tab = "goals"
    /\ main_window.gestures < MaxGestures
    /\ CardsEnabled
    /\ main_window.goals_view.subtasks_layouts[i] # <<>>
    /\ main_window.goals_view.subtasks_layouts[i][Len(main_window.goals_view.subtasks_layouts[i])].text # text
    /\ ApplySurface(_auto_save([OnGoalsView EXCEPT
                                  !.view.subtasks_layouts[i][Len(main_window.goals_view.subtasks_layouts[i])].text = text]),
                    "goals_view", Gesture("subtask", i))

\* the Clear button of card i, and Yes in the question box
GoalsClearGoal(i) ==
    /\ main_window.tab = "goals"
    /\ main_window.gestures < MaxGestures
    /\ CardsEnabled
    /\ ApplySurface(_on_delete_goal(OnGoalsView, i), "goals_view", Gesture("clear", i))

NextSurfaces ==
    \/ ShowDashboardTab
    \/ ShowGoalsTab
    \/ \E i \in EditSlots : \E text \in GoalTexts : DashboardGoalEdited(i, text)
    \/ \E i \in EditSlots : DashboardGoalClicked(i)
    \/ \E i \in EditSlots : \E text \in GoalTexts : GoalsGoalEdited(i, text)
    \/ \E i \in EditSlots : GoalsGoalChecked(i)
    \/ \E i \in EditSlots : \E text \in ReflectionTexts : GoalsReflectionEdited(i, text)
    \/ \E i \in EditSlots : GoalsAddSubtask(i)
    \/ \E i \in EditSlots : \E text \in SubtaskTexts : GoalsSubtaskEdited(i, text)

SpecSurfaces == InitSurfaces /\ [][NextSurfaces]_vars

\* the stored entry of the month, null when there is none
StoredMonth == Get(load_goals(State).ret, CurrentMonth)

\* the surface that wrote the entry
SavedBy(entry) ==
    IF "last_saved_by" \in DOMAIN entry.d THEN entry.d["last_saved_by"].s ELSE <<>>

\* the entry has a subtask with text under goal i
HasSubtasks(entry, i) ==
    \E k \in 1..Len(entry.d["subtasks"].l[i].l) : ~BlankWidget(entry.d["subtasks"].l[i].l[k])

\* the user's gesture of this step is on that widget of goal i
Deliberate(kind, i) == input' = Gesture(kind, i)

\* C16: when a step saves the month from one surface over an entry the other
\* surface wrote, every non-blank goal text, every non-blank reflection and
\* the subtasks of every goal that has any stay as stored, the widget the
\* user changed in this step apart.
C16_NoClobber ==
    [][ (/\ StoredMonth.t = "dict"
         /\ StoredMonth'.t = "dict"
         /\ SavedBy(StoredMonth) # <<>>
         /\ SavedBy(StoredMonth') # SavedBy(StoredMonth))
        => \A i \in 1..3 :
             /\ (~BlankWidget(StoredMonth.d["goals"].l[i]) /\ ~Deliberate("goal", i))
                   => StoredMonth'.d["goals"].l[i] = StoredMonth.d["goals"].l[i]
             /\ (~BlankWidget(StoredMonth.d["reflections"].l[i]) /\ ~Deliberate("reflection", i))
                   => StoredMonth'.d["reflections"].l[i] = StoredMonth.d["reflections"].l[i]
             /\ (HasSubtasks(StoredMonth, i) /\ ~Deliberate("subtask", i))
                   => StoredMonth'.d["subtasks"].l[i] = StoredMonth.d["subtasks"].l[i]
      ]_vars

-----------------------------------------------------------------------------
(* Startup on whatever an earlier run, or an editor, left in the data
   directory *)

\* the registered profiles found: none, default missing, default not first,
\* an id twice
StoredProfile(id) == Profile(id, <<"n">>, 0, 0)
StoredProfileLists ==
    { <<>>,
      <<StoredProfile(DEFAULT)>>,
      <<StoredProfile(Slug_a)>>,
      <<StoredProfile(DEFAULT), StoredProfile(Slug_a)>>,
      <<StoredProfile(Slug_a), StoredProfile(DEFAULT)>>,
      <<StoredProfile(Slug_a), StoredProfile(Slug_b)>>,
      <<StoredProfile(Slug_a), StoredProfile(Slug_a)>>,
      <<StoredProfile(DEFAULT), StoredProfile(Slug_a), StoredProfile(Slug_b)>> }

\* registered or not
StoredActiveIds == { DEFAULT, Slug_a, Slug_c }

StoredRegistries ==
    { NoFile, CorruptFile, NullProfilesFile }
       \cup { JsonFile([active_profile |-> a, profiles |-> ps, version |-> "1.0"]) :
              a \in StoredActiveIds, ps \in StoredProfileLists }

\* the directories under the profiles root, each with a tracker document
StoredDirs == { DEFAULT, Slug_a, Slug_b, Slug_c }
StoredTrees == { [d \in D |-> (TRACKER_FILENAME :> Activity1)] : D \in SUBSET StoredDirs }

InitStartup ==
    /\ regFile \in StoredRegistries
    /\ files \in StoredTrees
    /\ cache \in { None, DEFAULT, Slug_a, Slug_c }
    /\ clock = 1
    /\ saved = <<>>
    /\ input = None
    /\ output = None
    /\ main_window = NoWindow

Startup ==
    /\ Apply(initialize_profiles_system(State).st)
    /\ UNCHANGED saved

Cleanup ==
    /\ Apply(cleanup_orphaned_folders(State).st)
    /\ UNCHANGED saved

NextStartup ==
    \/ Startup
    \/ Cleanup
    \/ Restart

SpecStartup == InitStartup /\ [][NextStartup]_vars

\* the prior state holds after initialize_profiles_system returned: default
\* is registered, the active id is registered, and a second call at a later
\* time changes neither the registry file, the cached id nor the directories
StartupSettles(first) ==
    LET second == initialize_profiles_system([first.st EXCEPT !.clock = @ + 1])
    IN  /\ profile_exists(first.st, DEFAULT)
        /\ \E active \in { get_active_profile_id(first.st) } :
              profile_exists(active.st, active.ret)
        /\ ~IsRaised(second.ret)
        /\ second.st.reg = first.st.reg
        /\ second.st.cache = first.st.cache
        /\ DOMAIN second.st.files = DOMAIN first.st.files

\* C17: from every prior state (registry file missing, corrupt, without
\* profiles or inconsistent with itself and the directories; cached id set or
\* not) initialize_profiles_system returns, and afterwards "default" is
\* registered, the active profile id is registered, and a second call changes
\* neither the registry, the cached id nor the set of profile directories.
C17_StartupSafe ==
    \E first \in { initialize_profiles_system(State) } :
        ~IsRaised(first.ret) /\ StartupSettles(first)

\* the same from the prior states in which "profiles" of the registry is a list
C17_StartupSafeOnLists ==
    \E first \in { initialize_profiles_system(State) } :
        ~IsRaised(first.ret) => StartupSettles(first)

-----------------------------------------------------------------------------
(* C18: set_active_profile(id) with an id that is not registered returns
   False and leaves the registry document, the cached active id and the
   last_used value of every profile as they were *)
C18_SetActiveUnknownRefused ==
    \A id \in IdInputs :
        ~profile_exists(State, id) =>
            \E r \in { set_active_profile(State, id) } :
                /\ r.ret = FALSE
                /\ r.st.reg = regFile
                /\ r.st.cache = cache
                /\ list_profiles(r.st) = list_profiles(State)
                /\ r.st.files = files

\* a registry file with two profiles, a cached id, and an id that is not
\* registered and is refused
C18_Witness ==
    /\ regFile.kind = "json"
    /\ Len(list_profiles(State)) >= 2
    /\ cache # None
    /\ ~profile_exists(State, Slug_c)
    /\ set_active_profile(State, Slug_c).ret = FALSE

-----------------------------------------------------------------------------
\* the profiles with one display name replaced: the first entry with that id
Renamed(profiles, id, name) ==
    [i \in 1..Len(profiles) |->
        IF profiles[i].id = id /\ \A j \in 1..(i - 1) : profiles[j].id # id
        THEN [profiles[i] EXCEPT !.display_name = name]
        ELSE profiles[i]]

(* C19: rename_profile(id, new_name) with a name of 1 to 30 characters and a
   registered id succeeds and changes only the display_name of that profile:
   ids, directories and documents, the active-profile pointer, the cached id
   and every other entry stay; with a shorter or longer name, or an id that is
   not registered, it returns (False, message) and changes nothing *)
C19_RenameFrame ==
    \A id \in IdInputs : \A name \in RenameInputs \cup { Prefix(TooLongName, 30) } :
        \E r \in { rename_profile(State, id, name) } :
            IF /\ Len(name) >= 1
               /\ Len(name) <= 30
               /\ profile_exists(State, id)
            THEN /\ r.ret.ok
                 /\ list_profiles(r.st) = Renamed(list_profiles(State), id, name)
                 /\ _load_profiles_registry(r.st).active_profile
                       = _load_profiles_registry(State).active_profile
                 /\ r.st.cache = cache
                 /\ r.st.files = files
                 /\ get_active_profile_id(r.st).ret = get_active_profile_id(State).ret
            ELSE /\ ~r.ret.ok
                 /\ r.st = State

\* two profiles with documents on disk, one of them renamed with success, a
\* too long name refused
C19_Witness ==
    /\ Len(list_profiles(State)) >= 2
    /\ profile_exists(State, Slug_a)
    /\ Slug_a \in DOMAIN files
    /\ files[Slug_a] # <<>>
    /\ rename_profile(State, Slug_a, <<"X">>).ret.ok
    /\ ~rename_profile(State, Slug_a, TooLongName).ret.ok

-----------------------------------------------------------------------------
(* C20: on a registry that lists its profiles, cleanup_orphaned_folders
   removes exactly the directories of the profiles root whose name is not the
   id of a registered profile, returns how many it removed, and leaves the
   directories and documents of the registered profiles, the registry file
   and the cached id as they were *)
C20_CleanupExact ==
    ~IterRaises(State) =>
        \E r \in { cleanup_orphaned_folders(State) } :
            LET registered == Ids(list_profiles(State))
            IN  /\ DOMAIN r.st.files = DOMAIN files \cap registered
                /\ r.ret = Cardinality(DOMAIN files \ registered)
                /\ \A d \in DOMAIN r.st.files : r.st.files[d] = files[d]
                /\ r.st.reg = regFile
                /\ r.st.cache = cache

\* two directories without a registry entry and one with an entry and a
\* document: the call removes two
C20_Witness ==
    /\ regFile.kind = "json"
    /\ cleanup_orphaned_folders(State).ret = 2
    /\ \E d \in DOMAIN files : profile_exists(State, d) /\ files[d] # <<>>

-----------------------------------------------------------------------------
(* The window opened on the month's record of an earlier run. The record may
   be archived: auto_archive_past_goals compares the month with the local
   date of the run that calls it, so a run on a later date (before a change
   of time zone, or a correction of the system clock) archives the month the
   date is in now. *)

\* the month's record as an earlier run stored it
MonthRecords ==
    { [g EXCEPT !.archived = a] : g \in { GoalOnly(CurrentMonth), RichGoals(CurrentMonth) },
                                  a \in { T, F } }

\* DashboardView(): the archival of the past months, then the mini-cards
\* filled from the month's record before their signals are connected
DashboardView(s) ==
    CHOOSE out \in
      { [st |-> r.st,
         view |-> [_dashboard_goals |-> r.ret,
                   _goal_edits_dash |-> r.ret.goals.l,
                   _goal_checks_dash |-> r.ret.completed.l]] :
        r \in { load_goals_for_month(a, CurrentMonth) :
                 a \in { auto_archive_past_goals(s, CurrentMonth) } } } : TRUE

\* GoalsView(): the archival, the cards created empty with their signals
\* connected, then _load_month on the month of the combo box (the month of
\* the date; an archived month is listed under "Show archived months")
GoalsView(s) ==
    CHOOSE out \in
      { _load_month([st |-> a, view |-> NewGoalsView]) :
        a \in { auto_archive_past_goals(s, CurrentMonth) } } : TRUE

\* LanguageForgeWindow(): the dashboard, then the goals view; the dashboard
\* tab is shown
LanguageForgeWindow(s) ==
    LET Built(d) ==
          CHOOSE out \in
            { [st |-> g.st,
               window |-> [tab |-> "dashboard", gestures |-> 0,
                           dashboard_view |-> d.view, goals_view |-> g.view]] :
              g \in { GoalsView(d.st) } } : TRUE
    IN CHOOSE out \in { Built(d) : d \in { DashboardView(s) } } : TRUE

InitArchive ==
    /\ saved = <<>>
    /\ input = Gesture("none", 0)
    /\ output = None
    /\ \E fs \in { <<>> } \cup
                 { (DEFAULT :> (GOALS_FILENAME :>
                      JDict(CurrentMonth :> Put(to_dict(g), "last_saved_by", JStr(GOALS_VIEW))))) :
                   g \in MonthRecords } :
         \E w \in { LanguageForgeWindow([reg |-> NoFile, files |-> fs,
                                         cache |-> None, clock |-> 0]) } :
            /\ regFile = w.st.reg
            /\ files = w.st.files
            /\ cache = w.st.cache
            /\ clock = w.st.clock
            /\ main_window = w.window

NextArchive ==
    \/ ShowDashboardTab
    \/ ShowGoalsTab
    \/ \E i \in EditSlots : \E text \in GoalTexts : DashboardGoalEdited(i, text)
    \/ \E i \in EditSlots : DashboardGoalClicked(i)
    \/ \E i \in EditSlots : \E text \in GoalTexts : GoalsGoalEdited(i, text)
    \/ \E i \in EditSlots : GoalsGoalChecked(i)
    \/ \E i \in EditSlots : GoalsClearGoal(i)

SpecArchive == InitArchive /\ [][NextArchive]_vars

\* the stored record of the month is archived
StoredArchived == StoredMonth.t = "dict" /\ ~Falsy(GetOr(StoredMonth, "archived", F))

\* C21: once the stored record of the month is archived, no save from the
\* goals view (autosave, Clear) or from the dashboard (goal edited or checked)
\* changes it.
C21_ArchivedReadOnly ==
    [][ StoredArchived => StoredMonth' = StoredMonth ]_vars

\* slot i of a stored record or loaded object is cleared
SlotCleared(e, i) ==
    /\ e["goals"].l[i] = E
    /\ e["completed"].l[i] = F
    /\ e["categories"].l[i] = GENERAL
    /\ e["reflections"].l[i] = E
    /\ e["subtasks"].l[i] = JList(<<>>)
    /\ e["created_at"].l[i] = E
    /\ e["completed_at"].l[i] = E

\* C26: after Clear is confirmed on slot i of a month that is not archived,
\* slot i of the stored record is cleared and the next load of the month
\* shows slot i blank, whatever the month held.
C26_ClearGoal ==
    [][ \A i \in EditSlots :
          input' = Gesture("clear", i)
             => /\ StoredMonth'.t = "dict"
                /\ SlotCleared(StoredMonth'.d, i)
                /\ BlankWidget(load_goals_for_month(State', CurrentMonth).ret.goals.l[i])
      ]_vars

-----------------------------------------------------------------------------
(* Types of the loaded record, checked under SpecDocs *)

\* every element of the JSON list q has JSON type ty
AllOfType(q, ty) == \A i \in 1..Len(q.l) : q.l[i].t = ty

\* the record g has strings and booleans where MonthlyGoals declares them
WellTyped(g) ==
    /\ \A f \in {"goals", "categories", "reflections", "created_at", "completed_at"} :
          AllOfType(g[f], "str")
    /\ AllOfType(g.completed, "bool")
    /\ \A i \in 1..Len(g.subtasks.l) : AllOfType(g.subtasks.l[i], "str")
    /\ \A i \in 1..Len(g.subtasks_done.l) : AllOfType(g.subtasks_done.l[i], "bool")
    /\ g.notes.t = "str"

\* C22: whatever types the stored goals document holds, the record that
\* load_goals_for_month returns has strings in goals, categories,
\* reflections, created_at, completed_at and in each subtasks[i], booleans in
\* completed and in each subtasks_done[i], and a string as notes. (Stated on
\* the loads that return; the loads that raise are those of C15.)
C22_TypesCoerced ==
    \A month \in Months :
       \A r \in { load_goals_for_month(State, month).ret } :
          ~IsRaised(r) => WellTyped(r)

-----------------------------------------------------------------------------
(* Startup and the cached active id, checked under SpecStartup *)

\* active_profile of the registry document names no registered profile
ActiveUnregistered(s) ==
    /\ ~IterRaises(s)
    /\ _load_profiles_registry(s).active_profile \notin Ids(list_profiles(s))

\* C23: when initialize_profiles_system is called in a new process (no cached
\* id yet) and active_profile of the registry names no registered profile,
\* then after it returns get_active_profile_id() is "default" and the
\* registry's active_profile is "default".
C23_StartupRevalidates ==
    (cache = None /\ ActiveUnregistered(State))
       => \E r \in { initialize_profiles_system(State) } :
             /\ get_active_profile_id(r.st).ret = DEFAULT
             /\ _load_profiles_registry(r.st).active_profile = DEFAULT

-----------------------------------------------------------------------------
(* Timestamps of the goals, checked under SpecSurfaces *)

\* slot i of list field f of the stored record e, blank when there is no record
SlotOf(e, f, i) == IF e.t = "dict" THEN e.d[f].l[i] ELSE IF f = "completed" THEN F ELSE E

\* C24: in every save through the goals view or the dashboard, created_at[i]
\* is non-empty once the text of slot i has gone from blank to non-blank,
\* completed_at[i] is non-empty once the completed flag of slot i has gone
\* from false to true, and a non-empty created_at[i] or completed_at[i] is
\* stored unchanged by every later save.
C24_SetOnceTimestamps ==
    [][ \A i \in 1..3 :
          /\ (BlankWidget(SlotOf(StoredMonth, "goals", i))
                 /\ ~BlankWidget(SlotOf(StoredMonth', "goals", i)))
                => ~Falsy(SlotOf(StoredMonth', "created_at", i))
          /\ (Falsy(SlotOf(StoredMonth, "completed", i))
                 /\ ~Falsy(SlotOf(StoredMonth', "completed", i)))
                => ~Falsy(SlotOf(StoredMonth', "completed_at", i))
          /\ ~Falsy(SlotOf(StoredMonth, "created_at", i))
                => SlotOf(StoredMonth', "created_at", i) = SlotOf(StoredMonth, "created_at", i)
          /\ ~Falsy(SlotOf(StoredMonth, "completed_at", i))
                => SlotOf(StoredMonth', "completed_at", i) = SlotOf(StoredMonth, "completed_at", i)
      ]_vars

\* the same for the steps of the goals view alone
C24_GoalsViewSteps ==
    [][ (main_window.tab = "goals" /\ main_window'.tab = "goals")
          => \A i \in 1..3 :
               /\ (BlankWidget(SlotOf(StoredMonth, "goals", i))
                      /\ ~BlankWidget(SlotOf(StoredMonth', "goals", i)))
                     => ~Falsy(SlotOf(StoredMonth', "created_at", i))
               /\ (Falsy(SlotOf(StoredMonth, "completed", i))
                      /\ ~Falsy(SlotOf(StoredMonth', "completed", i)))
                     => ~Falsy(SlotOf(StoredMonth', "completed_at", i))
               /\ ~Falsy(SlotOf(StoredMonth, "created_at", i))
                     => SlotOf(StoredMonth', "created_at", i) = SlotOf(StoredMonth, "created_at", i)
               /\ ~Falsy(SlotOf(StoredMonth, "completed_at", i))
                     => SlotOf(StoredMonth', "completed_at", i) = SlotOf(StoredMonth, "completed_at", i)
      ]_vars

-----------------------------------------------------------------------------
(* The two surfaces on the daily activity: the weekly preview of the
   dashboard (gui/dashboard_view.py) and the Monthly Tracker
   (gui/tracker_view.py), which keeps the loaded document in self.activity *)

SKILLS == {"reading", "listening", "speaking", "writing"}

\* both handlers: setdefault(day, {sk: False for sk in skills}), then
\* day_data[s] = not bool(day_data.get(s, False))
ToggleCell(activity, day, skill) ==
    LET day_data == IF day \in DOMAIN activity.d THEN activity.d[day]
                    ELSE JDict([sk \in SKILLS |-> F])
    IN Put(activity, day, Put(day_data, skill, JBool(Falsy(GetOr(day_data, skill, F)))))

\* the click handler of a circle of the weekly preview: load, toggle, save;
\* update_consistency_label loads once more
Dashboard_on_clicked(s, day, skill) ==
    CHOOSE out \in
      { load_daily_activity(save_daily_activity(r.st, ToggleCell(r.ret, day, skill))).st :
        r \in { load_daily_activity(s) } } : TRUE

\* the click handler of a circle of the Monthly Tracker: toggle in
\* self.activity, save self.activity
Tracker_on_clicked(w, day, skill) ==
    CHOOSE out \in
      { [st |-> save_daily_activity(w.st, a), view |-> [activity |-> a]] :
        a \in { ToggleCell(w.view.activity, day, skill) } } : TRUE

\* refresh_from_storage with the assignment to self.activity left out
refresh_from_storage_keeps_copy(w) ==
    [st |-> load_daily_activity(w.st).st, view |-> w.view]

\* TrackerView.refresh_from_storage: self.activity = load_daily_activity()
refresh_from_storage(w) ==
    CHOOSE out \in
      { [st |-> r.st, view |-> [activity |-> r.ret]] : r \in { load_daily_activity(w.st) } } : TRUE

\* the days and skills the user clicks
Day1 == "2025-06-01"
Day2 == "2025-06-02"
Cells == { <<Day1, "reading">>, <<Day1, "listening">>, <<Day2, "listening">> }

\* a click: the surface, the cell, and whether the handler called
\* load_daily_activity() before it changed the document
Click(surface, cell, reloaded) == [surface |-> surface, cell |-> cell, reloaded |-> reloaded]

\* the window on the dashboard tab; TrackerView() has loaded the document.
\* The store is empty or holds the document of an earlier run.
InitTracker ==
    /\ regFile = NoFile
    /\ cache = None
    /\ clock = 0
    /\ saved = <<>>
    /\ input = None
    /\ output = None
    /\ \E fs \in { <<>>, (DEFAULT :> (TRACKER_FILENAME :> Activity2)) } :
          /\ files = fs
          /\ main_window = [tab |-> "dashboard", clicks |-> <<>>,
                            tracker_view |-> [activity |-> IF fs = <<>> THEN EmptyDict
                                                           ELSE Activity2]]

OnTracker == [st |-> State, view |-> main_window.tracker_view]

\* _on_tab_changed to the tracker: tracker_view.refresh_from_storage()
ShowTrackerTab ==
    /\ main_window.tab = "dashboard"
    /\ \E w \in { refresh_from_storage(OnTracker) } :
          /\ regFile' = w.st.reg
          /\ files' = w.st.files
          /\ cache' = w.st.cache
          /\ main_window' = [main_window EXCEPT !.tab = "tracker", !.tracker_view = w.view]
    /\ UNCHANGED <<clock, saved, input, output>>

\* _on_tab_changed to the dashboard: refresh_week_from_storage() sets the
\* circles from a load
ShowWeekTab ==
    /\ main_window.tab = "tracker"
    /\ \E r \in { load_daily_activity(State) } :
          /\ regFile' = r.st.reg
          /\ files' = r.st.files
          /\ cache' = r.st.cache
    /\ main_window' = [main_window EXCEPT !.tab = "dashboard"]
    /\ UNCHANGED <<clock, saved, input, output>>

DashboardSkillClicked(cell) ==
    /\ main_window.tab = "dashboard"
    /\ Len(main_window.clicks) < MaxGestures
    /\ \E s \in { Dashboard_on_clicked(State, cell[1], cell[2]) } :
          /\ regFile' = s.reg
          /\ files' = s.files
          /\ cache' = s.cache
    /\ main_window' = [main_window EXCEPT !.clicks = Append(@, Click("dashboard", cell, TRUE))]
    /\ UNCHANGED <<clock, saved, input, output>>

TrackerSkillClicked(cell) ==
    /\ main_window.tab = "tracker"
    /\ Len(main_window.clicks) < MaxGestures
    /\ \E w \in { Tracker_on_clicked(OnTracker, cell[1], cell[2]) } :
          /\ regFile' = w.st.reg
          /\ files' = w.st.files
          /\ cache' = w.st.cache
          /\ main_window' = [main_window EXCEPT !.clicks = Append(@, Click("tracker", cell, FALSE)),
                                                !.tracker_view = w.view]
    /\ UNCHANGED <<clock, saved, input, output>>

NextTracker ==
    \/ ShowTrackerTab
    \/ ShowWeekTab
    \/ \E cell \in Cells : DashboardSkillClicked(cell)
    \/ \E cell \in Cells : TrackerSkillClicked(cell)

SpecTracker == InitTracker /\ [][NextTracker]_vars

\* the cells that are done in the stored document
DoneCells(doc) ==
    { c \in { <<day, sk>> : day \in DOMAIN doc.d, sk \in SKILLS } :
         ~Falsy(GetOr(doc.d[c[1]], c[2], F)) }

StoredCells == DoneCells(load_daily_activity(State).ret)

\* cell added to the set when it is not in it, removed when it is
Flip(cells, cell) == IF cell \in cells THEN cells \ {cell} ELSE cells \cup {cell}

\* the click of this step
Clicked == main_window'.clicks[Len(main_window'.clicks)]

\* C25 as stated: every click on either surface reloads the document from
\* storage immediately before it changes it, and changes the one cell it
\* targets in the stored document, every other stored cell staying as it is.
C25_Original ==
    [][ Len(main_window'.clicks) = Len(main_window.clicks) + 1
          => /\ Clicked.reloaded
             /\ StoredCells' = Flip(StoredCells, Clicked.cell)
      ]_vars

\* C25: a click on the weekly preview reloads the document before it changes
\* it; a click on the Monthly Tracker changes self.activity, which at that
\* moment equals the stored document (it was loaded when the tab was shown
\* and saved at every click since). For every interleaving of clicks on the
\* two surfaces a click changes the one cell it targets in the stored
\* document and leaves every other stored cell as it is.
C25_ToggleDiscipline ==
    [][ Len(main_window'.clicks) = Len(main_window.clicks) + 1
          => /\ Clicked.surface = "dashboard" => Clicked.reloaded
             /\ Clicked.surface = "tracker"
                   => main_window.tracker_view.activity = load_daily_activity(State).ret
             /\ StoredCells' = Flip(StoredCells, Clicked.cell)
      ]_vars

\* a toggle of the dashboard and then a toggle of another cell in the tracker
\* have been stored, and both cells are done in the stored document
C25_Witness ==
    /\ Len(main_window.clicks) >= 2
    /\ \E k \in 1..(Len(main_window.clicks) - 1) :
          /\ main_window.clicks[k].surface = "dashboard"
          /\ main_window.clicks[k + 1].surface = "tracker"
          /\ main_window.clicks[k].cell # main_window.clicks[k + 1].cell
          /\ { main_window.clicks[k].cell, main_window.clicks[k + 1].cell } \subseteq StoredCells

-----------------------------------------------------------------------------
(* The registry's operations when the file system fails silently: profiles.json
   cannot be opened for reading or for writing for a while, a file of a
   profile directory is held open by another process *)

FaultNames == { <<"a">>, <<"A", " ">> }
FaultIds == { DEFAULT, Slug_a }
DenialModes == { "r", "w" }

\* the call made and what the caller has been told: whether the call
\* reported success, and the profiles that create_profile reported created
\* and delete_profile has not since reported deleted
Call(op, arg) == [op |-> op, arg |-> arg]
Told(ok, live) == [ok |-> ok, live |-> live]
Live == output.live

\* a fresh installation, no call made yet
InitFaults ==
    /\ regFile = NoFile
    /\ files = <<>>
    /\ cache = None
    /\ clock = 0
    /\ saved = <<>>
    /\ input = Call("start", None)
    /\ output = Told(TRUE, {})
    /\ main_window = NoWindow

Run(s) ==
    /\ regFile' = s.reg
    /\ files' = s.files
    /\ cache' = s.cache
    /\ clock' = s.clock
    /\ UNCHANGED <<saved, main_window>>

DenyRegistry(mode) ==
    /\ "denied" \notin DOMAIN regFile
    /\ regFile' = DeniedFile(regFile, {mode})
    /\ UNCHANGED <<files, cache, clock, saved, input, output, main_window>>

AllowRegistry ==
    /\ "denied" \in DOMAIN regFile
    /\ regFile' = IF regFile.kind = "json" THEN JsonFile(regFile.data)
                  ELSE [kind |-> regFile.kind]
    /\ UNCHANGED <<files, cache, clock, saved, input, output, main_window>>

\* another process opens a file of the directory; gone names the documents
\* rmtree would remove before it reaches that file
HoldOpen(d, gone) ==
    /\ d \in DOMAIN files
    /\ HELD \notin DOMAIN files[d]
    /\ gone \subseteq DOMAIN files[d]
    /\ files' = [files EXCEPT ![d] = (HELD :> gone) @@ @]
    /\ UNCHANGED <<regFile, cache, clock, saved, input, output, main_window>>

Release(d) ==
    /\ d \in DOMAIN files
    /\ HELD \in DOMAIN files[d]
    /\ files' = [files EXCEPT ![d] = [f \in DOMAIN @ \ {HELD} |-> @[f]]]
    /\ UNCHANGED <<regFile, cache, clock, saved, input, output, main_window>>

CreateCall(name) ==
    \E r \in { create_profile(State, name) } :
       /\ Run(r.st)
       /\ input' = Call("create_profile", name)
       /\ output' = Told(r.ret.ok, IF r.ret.ok
                                THEN Live \cup {sanitize_profile_name(name)} ELSE Live)

DeleteCall(id) ==
    \E r \in { delete_profile(State, id) } :
       /\ Run(r.st)
       /\ input' = Call("delete_profile", id)
       /\ output' = Told(r.ret.ok, IF r.ret.ok THEN Live \ {id} ELSE Live)

SetActiveCall(id) ==
    \E r \in { set_active_profile(State, id) } :
       /\ Run(r.st)
       /\ input' = Call("set_active_profile", id)
       /\ output' = Told(r.ret, Live)

GetActiveCall ==
    \E r \in { get_active_profile_id(State) } :
       /\ Run(r.st)
       /\ input' = Call("get_active_profile_id", None)
       /\ output' = Told(TRUE, Live)

InitializeCall ==
    \E r \in { initialize_profiles_system(State) } :
       /\ Run(r.st)
       /\ input' = Call("initialize_profiles_system", None)
       /\ output' = Told(~IsRaised(r.ret), Live)

CleanupCall ==
    \E r \in { cleanup_orphaned_folders(State) } :
       /\ Run(r.st)
       /\ input' = Call("cleanup_orphaned_folders", None)
       /\ output' = Told(TRUE, Live)

SaveActivityCall ==
    /\ Run(save_daily_activity(State, Activity1))
    /\ input' = Call("save_daily_activity", None)
    /\ output' = Told(TRUE, Live)

NextFaults ==
    \/ \E mode \in DenialModes : DenyRegistry(mode)
    \/ AllowRegistry
    \/ \E gone \in SUBSET {TRACKER_FILENAME} : HoldOpen(Slug_a, gone)
    \/ Release(Slug_a)
    \/ Restart
    \/ \E name \in FaultNames : CreateCall(name)
    \/ \E id \in FaultIds : DeleteCall(id)
    \/ \E id \in FaultIds : SetActiveCall(id)
    \/ GetActiveCall
    \/ InitializeCall
    \/ CleanupCall
    \/ SaveActivityCall

SpecFaults == InitFaults /\ [][NextFaults]_vars

-----------------------------------------------------------------------------
(* The cached active id and the registry document *)

\* C27: whenever the cached active id is set, it is the active_profile of the
\* registry document, in every state reached through the registry's
\* operations.
C27_CacheCoherence == cache # None => cache = RegistryActive

-----------------------------------------------------------------------------
(* Profile directories and the cleanup of unregistered directories *)

\* the call of this step
Called(op) == input'.op = op

\* C28: cleanup_orphaned_folders, called directly or from
\* initialize_profiles_system, never removes the directory of a profile
\* that create_profile reported created and delete_profile has not since
\* reported deleted, also when a registry save or load failed silently in
\* between.
C28_NoLossByCleanup ==
    [][ Called("cleanup_orphaned_folders") \/ Called("initialize_profiles_system")
          => \A id \in Live : id \in DOMAIN files => id \in DOMAIN files'
      ]_vars

\* the documents of the entity modules
EntityFiles == { TRACKER_FILENAME, GOALS_FILENAME, PLAN_FILENAME }

\* C29: immediately after create_profile returned success for a slug, the
\* load of every entity document of that profile returns the default, for
\* every prior history, an earlier profile of the same slug deleted with the
\* directory delete failing or succeeding included.
C29_FreshProfileEmpty ==
    [][ Called("create_profile") /\ output'.ok
          => \A filename \in EntityFiles :
                load_profile_json(State', filename, EmptyDict,
                                  sanitize_profile_name(input'.arg)).ret = EmptyDict
      ]_vars


-----------------------------------------------------------------------------
(* Loads through the profile-scoped store *)

\* a load through the store: load_daily_activity() for the active profile,
\* load_profile_json(filename, default, id) for a named one
LoadStep == LoadActivity \/ \E id \in StoreIds : LoadJson(id)

\* C30: a load through the profile-scoped store, for the active profile or a
\* named profile id, registered or not, changes neither a stored document,
\* nor the registry document, nor the set of directories under the profiles
\* root.
C30_LoadsReadOnly ==
    [][ LoadStep => regFile' = regFile /\ files' = files ]_vars

====
